---------------------------- MODULE Spec2Model ----------------------------
(***************************************************************************)
(* A model of the quantitative analytics engines of the portfolio          *)
(* management tool (src/src/portfolio_management/analytics).               *)
(*                                                                         *)
(* Numbers.  The engines compute on IEEE doubles.  The model computes on   *)
(* exact rationals [n, d] in lowest terms (d > 0), extended with the       *)
(* non-finite values the code can produce without raising: +inf = 1/0,     *)
(* -inf = -1/0 and NaN = 0/0.  Square roots are taken upwards at a fixed   *)
(* precision (Sqrt), so that Sqrt(q) = 0 exactly when q = 0, and the       *)
(* normal quantile function is a table (NormPpf).  Rounding error of the   *)
(* doubles is not modelled.                                                *)
(*                                                                         *)
(* Each engine is a set of pure functions of its arguments; each one is an *)
(* operator named as in the source, and an action of the engine's          *)
(* specification applies it to inputs drawn from bounded sets and records  *)
(* the call in the engine's "Out" variable.                                *)
(***************************************************************************)
EXTENDS Integers, Sequences, FiniteSets, TLC

VARIABLES
    returns,              \* the portfolio return series handed to the engines
    benchmark_returns,    \* the benchmark return series
    risk_free_rate,       \* RiskAnalyzer.risk_free_rate
    riskOut,              \* the last RiskAnalyzer call and what it returned
    attr_risk_free_rate,  \* AttributionAnalyzer.risk_free_rate
    attrOut,              \* the last AttributionAnalyzer call and its result
    symbols,              \* the asset symbols handed to the optimizer
    expected_returns,     \* expected return per asset
    cov_matrix,           \* covariance matrix of the assets
    opt_risk_free_rate,   \* PortfolioOptimizer.risk_free_rate
    optOut,               \* the last PortfolioOptimizer call and its result
    liqOut,               \* the last LiquidityAnalyzer call and its result
    HISTORICAL_SCENARIOS, \* the module-level dict of historical scenarios
    HYPOTHETICAL_SCENARIOS, \* the module-level dict of hypothetical scenarios
    engines,              \* StressTestEngine.scenarios of every engine built
    stressOut,            \* the last StressTestEngine call and its result
    portfolio_weights_series,  \* sector weights of the periods under analysis
    sector_returns_series,     \* sector returns of the periods under analysis
    random_state,         \* the state of numpy's global random generator
    observed,             \* the Monte-Carlo result the caller has kept
    portfolio_positions,  \* Portfolio.positions
    portfolioOut          \* the last Portfolio call and what it returned

vars == <<returns, benchmark_returns, risk_free_rate, riskOut,
          attr_risk_free_rate, attrOut,
          symbols, expected_returns, cov_matrix, opt_risk_free_rate, optOut,
          liqOut, HISTORICAL_SCENARIOS, HYPOTHETICAL_SCENARIOS, engines,
          stressOut, portfolio_weights_series, sector_returns_series,
          random_state, observed, portfolio_positions, portfolioOut>>

seriesVars == <<returns, benchmark_returns>>
riskVars == <<risk_free_rate, riskOut>>
attrVars == <<attr_risk_free_rate, attrOut>>
optVars == <<symbols, expected_returns, cov_matrix, opt_risk_free_rate, optOut>>
liqVars == <<liqOut>>
moduleVars == <<HISTORICAL_SCENARIOS, HYPOTHETICAL_SCENARIOS>>
stressVars == <<moduleVars, engines, stressOut>>
periodVars == <<portfolio_weights_series, sector_returns_series>>
randomVars == <<random_state, observed>>
portfolioVars == <<portfolio_positions, portfolioOut>>

-----------------------------------------------------------------------------
(* Bounds of the model *)

\* longest return series
MaxLen == 3
\* number of normal draws of the Monte-Carlo VaR (the code draws MC_DRAWS)
SimDraws == 2

\* the solver's weights are multiples of 1/WeightGrid
WeightGrid == 4
\* largest n_points of an efficient frontier
MaxPoints == 5

\* largest number of StressTestEngine instances
MaxEngines == 2

\* longest price series
MaxPrices == 4
\* largest number of periods of a weight series
MaxPeriods == 2

(* Program constants *)

TRADING_DAYS_PER_YEAR == 252
MC_DRAWS == 10000
BASIS_POINTS_PER_UNIT == 10000
MAXITER == 1000

-----------------------------------------------------------------------------
(* Exact rational arithmetic with IEEE's non-finite values *)

Abs(x) == IF x < 0 THEN -x ELSE x

Sign(x) == IF x < 0 THEN -1 ELSE IF x > 0 THEN 1 ELSE 0

RECURSIVE GCD(_, _)
GCD(a, b) == IF b = 0 THEN a ELSE GCD(b, a % b)

\* n/d in lowest terms; x/0 is +inf, -inf or NaN
R(n, d) ==
    IF d = 0 THEN [n |-> Sign(n), d |-> 0]
    ELSE LET g == GCD(Abs(n), Abs(d))
         IN  [n |-> Sign(d) * (n \div g), d |-> Abs(d) \div g]

RInt(k) == [n |-> k, d |-> 1]
Zero == RInt(0)
One == RInt(1)
NaN == [n |-> 0, d |-> 0]
Inf == [n |-> 1, d |-> 0]

IsNaN(a) == a.n = 0 /\ a.d = 0
IsFinite(a) == a.d # 0

RNeg(a) == [n |-> -a.n, d |-> a.d]
RAdd(a, b) ==
    IF a.d = 0 /\ b.d = 0
    THEN (IF a.n = b.n THEN a ELSE NaN)
    ELSE LET g == GCD(a.d, b.d)  \* over the least common denominator
         IN  R(a.n * (b.d \div g) + b.n * (a.d \div g), (a.d \div g) * b.d)
RSub(a, b) == RAdd(a, RNeg(b))
RMul(a, b) == R(a.n * b.n, a.d * b.d)
RDiv(a, b) == R(a.n * b.d, a.d * b.n)

\* comparisons as IEEE makes them: every comparison with NaN is false
RLt(a, b) ==
    /\ ~IsNaN(a)
    /\ ~IsNaN(b)
    /\ IF a.d = 0 /\ b.d = 0 THEN a.n < b.n ELSE a.n * b.d < b.n * a.d
REq(a, b) == ~IsNaN(a) /\ ~IsNaN(b) /\ a = b
RLe(a, b) == RLt(a, b) \/ REq(a, b)
RGt(a, b) == RLt(b, a)
RGe(a, b) == RLe(b, a)

RAbs(a) == [n |-> Abs(a.n), d |-> a.d]

\* floor of a finite rational
RFloor(a) == a.n \div a.d

RECURSIVE SqrtSearch(_, _, _)
SqrtSearch(x, lo, hi) ==
    \* least k in lo..hi with k*k >= x
    IF lo >= hi THEN lo
    ELSE LET mid == (lo + hi) \div 2
         IN  IF mid * mid >= x THEN SqrtSearch(x, lo, mid)
             ELSE SqrtSearch(x, mid + 1, hi)

\* ceiling of a finite non-negative rational
RCeil(a) == -((-a.n) \div a.d)

RECURSIVE ScaledCeil(_, _, _)
\* ceiling of n * 10^k / d for n >= 0 and d > 0, digit by digit
ScaledCeil(n, d, k) ==
    IF k = 0 THEN (n \div d) + (IF n % d > 0 THEN 1 ELSE 0)
    ELSE (n \div d) * 10^k + ScaledCeil((n % d) * 10, d, k - 1)

\* np.sqrt: the root taken upwards at precision 1/100; NaN below 0
Sqrt(a) ==
    IF IsNaN(a) \/ RLt(a, Zero) THEN NaN
    ELSE IF a.d = 0 THEN Inf
    ELSE LET x == ScaledCeil(a.n, a.d, 4)
         IN  R(SqrtSearch(x, 0, 30000), 100)

\* Python's min(a, b) on ints
Min(a, b) == IF a <= b THEN a ELSE b
Max(a, b) == IF a >= b THEN a ELSE b

-----------------------------------------------------------------------------
(* numpy on one-dimensional arrays (sequences of rationals) *)

RECURSIVE SumRange(_, _, _)
\* np.sum adds pairwise: s[lo..hi] is summed from the sums of its halves
SumRange(s, lo, hi) ==
    IF lo > hi THEN Zero
    ELSE IF lo = hi THEN s[lo]
    ELSE LET mid == (lo + hi) \div 2
         IN  RAdd(SumRange(s, lo, mid), SumRange(s, mid + 1, hi))

SumSeq(s) == SumRange(s, 1, Len(s))

\* a[:k]
Prefix(s, k) == SubSeq(s, 1, Min(k, Len(s)))

\* np.mean: NaN (with a warning) on an empty array
Mean(s) == RDiv(SumSeq(s), RInt(Len(s)))

\* sum of squared deviations from the mean
SumSqDev(s) ==
    LET m == Mean(s)
    IN  SumSeq([i \in 1..Len(s) |-> RMul(RSub(s[i], m), RSub(s[i], m))])

\* np.var(s, ddof=1): the divisor is max(n - 1, 0), so NaN for n <= 1
Var1(s) == RDiv(SumSqDev(s), RInt(Max(Len(s) - 1, 0)))

\* np.std(s, ddof=1)
Std1(s) == Sqrt(Var1(s))

\* np.cov(x, y)[0, 1], for x and y of one length
Cov1(x, y) ==
    LET mx == Mean(x)
        my == Mean(y)
    IN  RDiv(SumSeq([i \in 1..Len(x) |-> RMul(RSub(x[i], mx), RSub(y[i], my))]),
             RInt(Max(Len(x) - 1, 0)))

RECURSIVE Insert(_, _)
Insert(x, s) ==
    IF s = <<>> THEN <<x>>
    ELSE IF RLe(x, Head(s)) THEN <<x>> \o s
    ELSE <<Head(s)>> \o Insert(x, Tail(s))

RECURSIVE Sorted(_)
Sorted(s) == IF s = <<>> THEN <<>> ELSE Insert(Head(s), Sorted(Tail(s)))

\* faulty variant of Percentile: the order statistic below the position,
\* without interpolation
Percentile_lower(s, q) ==
    LET x == Sorted(s)
        pos == RMul(q, RInt(Len(s) - 1))
    IN  x[Min(RFloor(pos) + 1, Len(s))]

\* np.percentile(s, q * 100), q a rational in [0, 1], s not empty: linear
\* interpolation between the order statistics around position q * (n - 1)
Percentile(s, q) ==
    LET x == Sorted(s)
        pos == RMul(q, RInt(Len(s) - 1))
        lo == RFloor(pos)
        frac == RSub(pos, RInt(lo))
    IN  IF lo + 1 >= Len(s) THEN x[Len(s)]
        ELSE RAdd(x[lo + 1], RMul(frac, RSub(x[lo + 2], x[lo + 1])))

\* a[mask]: the elements of a where the boolean array mask is true
RECURSIVE MaskSelect(_, _)
MaskSelect(a, mask) ==
    IF a = <<>> THEN <<>>
    ELSE IF Head(mask) THEN <<Head(a)>> \o MaskSelect(Tail(a), Tail(mask))
    ELSE MaskSelect(Tail(a), Tail(mask))

\* what a call that raises returns to its caller
Raise(e) == [raise |-> e]
IsRaise(v) == "raise" \in DOMAIN v

\* scipy.stats.norm.ppf(1 - c) for the confidence levels of the model
NormPpf(p) ==
    CASE p = R(3, 4) -> R(6745, 10000)
      [] p = R(1, 2) -> Zero
      [] p = R(1, 4) -> R(-6745, 10000)
      [] p = R(1, 10) -> R(-12816, 10000)
      [] p = R(1, 20) -> R(-16449, 10000)

-----------------------------------------------------------------------------
(* RiskAnalyzer (analytics/risk.py) *)

\* calculate_var; z is what the global random source yields for the
\* SimDraws standard normal draws behind np.random.normal(mu, sigma, MC_DRAWS)
\* faulty variant of calculate_var: an unknown method falls back to "historical"
calculate_var_defaulting(rets, confidence_level, method, portfolio_value, z) ==
    LET q == RSub(One, confidence_level)
        mu == Mean(rets)
        sigma == Std1(rets)
        simulated == [i \in 1..Len(z) |-> RAdd(mu, RMul(sigma, z[i]))]
    IN  CASE method = "parametric" ->
               RMul(RNeg(RAdd(mu, RMul(NormPpf(q), sigma))), portfolio_value)
          [] method = "monte_carlo" ->
               RMul(RNeg(Percentile(simulated, q)), portfolio_value)
          [] OTHER -> RMul(RNeg(Percentile(rets, q)), portfolio_value)

calculate_var(rets, confidence_level, method, portfolio_value, z) ==
    LET q == RSub(One, confidence_level)
        mu == Mean(rets)
        sigma == Std1(rets)
        simulated == [i \in 1..Len(z) |-> RAdd(mu, RMul(sigma, z[i]))]
    IN  CASE method = "historical" ->
               RMul(RNeg(Percentile(rets, q)), portfolio_value)
          [] method = "parametric" ->
               RMul(RNeg(RAdd(mu, RMul(NormPpf(q), sigma))), portfolio_value)
          [] method = "monte_carlo" ->
               RMul(RNeg(Percentile(simulated, q)), portfolio_value)
          [] OTHER -> Raise("ValueError")

\* faulty variant of TailReturns: the tail taken strictly below the threshold
TailReturnsStrict(rets, threshold) ==
    MaskSelect(rets, [i \in 1..Len(rets) |-> RLt(rets[i], threshold)])

\* returns[returns <= threshold]
TailReturns(rets, threshold) ==
    MaskSelect(rets, [i \in 1..Len(rets) |-> RLe(rets[i], threshold)])

calculate_cvar(rets, confidence_level, portfolio_value) ==
    LET threshold == Percentile(rets, RSub(One, confidence_level))
        tail_returns == TailReturns(rets, threshold)
    IN  IF Len(tail_returns) = 0
        THEN calculate_var(rets, confidence_level, "historical", One, <<>>)
        ELSE RMul(RNeg(Mean(tail_returns)), portfolio_value)

\* a[-k:]
Suffix(s, k) == SubSeq(s, Len(s) - Min(k, Len(s)) + 1, Len(s))

\* faulty variant of TruncateReturns: the most recent min_len observations are kept
TruncateReturnsLast(rets, bench) ==
    IF Len(rets) # Len(bench)
    THEN LET min_len == Min(Len(rets), Len(bench))
         IN  <<Suffix(rets, min_len), Suffix(bench, min_len)>>
    ELSE <<rets, bench>>

\* the two series cut to the shorter length, as every two-series method does
TruncateReturns(rets, bench) ==
    IF Len(rets) # Len(bench)
    THEN LET min_len == Min(Len(rets), Len(bench))
         IN  <<Prefix(rets, min_len), Prefix(bench, min_len)>>
    ELSE <<rets, bench>>

calculate_beta(rets, bench) ==
    LET t == TruncateReturns(rets, bench)
    IN  IF Len(t[1]) # Len(t[2]) THEN Raise("ValueError")  \* np.cov
        ELSE LET covariance == Cov1(t[1], t[2])
                 benchmark_variance == Var1(t[2])
             IN  IF REq(benchmark_variance, Zero) THEN Zero
                 ELSE RDiv(covariance, benchmark_variance)

\* an argument left at its default None
None == [none |-> TRUE]

\* calculate_alpha; the means run over the series as they were given
calculate_alpha(rets, bench, beta_arg, rf) ==
    LET beta == IF beta_arg = None THEN calculate_beta(rets, bench) ELSE beta_arg
        rf_daily == RDiv(rf, RInt(TRADING_DAYS_PER_YEAR))
        portfolio_excess == RSub(Mean(rets), rf_daily)
        benchmark_excess == RSub(Mean(bench), rf_daily)
        daily_alpha == RSub(portfolio_excess, RMul(beta, benchmark_excess))
    IN  IF IsRaise(beta) THEN beta
        ELSE RMul(daily_alpha, RInt(TRADING_DAYS_PER_YEAR))

\* returns - benchmark_returns, element by element
ExcessReturns(a, b) == [i \in 1..Len(a) |-> RSub(a[i], b[i])]

calculate_tracking_error(rets, bench) ==
    LET t == TruncateReturns(rets, bench)
    IN  IF Len(t[1]) # Len(t[2]) THEN Raise("ValueError")  \* broadcasting
        ELSE RMul(Std1(ExcessReturns(t[1], t[2])),
                  Sqrt(RInt(TRADING_DAYS_PER_YEAR)))

calculate_information_ratio(rets, bench) ==
    LET t == TruncateReturns(rets, bench)
    IN  IF Len(t[1]) # Len(t[2]) THEN Raise("ValueError")  \* broadcasting
        ELSE LET excess_returns == ExcessReturns(t[1], t[2])
                 mean_excess == Mean(excess_returns)
                 tracking_error == Std1(excess_returns)
             IN  IF REq(tracking_error, Zero)
                 THEN (IF RGt(mean_excess, Zero) THEN Inf ELSE Zero)
                 ELSE RMul(RDiv(mean_excess, tracking_error),
                           Sqrt(RInt(TRADING_DAYS_PER_YEAR)))

\* one capture ratio over the periods selected by mask
CaptureRatio(rets, bench, mask) ==
    IF Len(MaskSelect(bench, mask)) > 0
    THEN RDiv(RAdd(One, Mean(MaskSelect(rets, mask))),
              RAdd(One, Mean(MaskSelect(bench, mask))))
    ELSE One

calculate_capture_ratios(rets, bench) ==
    LET t == TruncateReturns(rets, bench)
        up_mask == [i \in 1..Len(t[2]) |-> RGt(t[2][i], Zero)]
        down_mask == [i \in 1..Len(t[2]) |-> RLt(t[2][i], Zero)]
    IN  IF Len(t[1]) # Len(t[2]) THEN Raise("IndexError")  \* returns[up_mask]
        ELSE [upside_capture |-> CaptureRatio(t[1], t[2], up_mask),
              downside_capture |-> CaptureRatio(t[1], t[2], down_mask)]

calculate_sharpe_ratio(rets, rf) ==
    LET rf_daily == RDiv(rf, RInt(TRADING_DAYS_PER_YEAR))
        excess_returns == [i \in 1..Len(rets) |-> RSub(rets[i], rf_daily)]
        mean_excess == Mean(excess_returns)
        std_excess == Std1(excess_returns)
    IN  IF REq(std_excess, Zero) THEN Zero
        ELSE RMul(RDiv(mean_excess, std_excess),
                  Sqrt(RInt(TRADING_DAYS_PER_YEAR)))

\* faulty variant of calculate_sortino_ratio: a zero downside deviation is
\* divided by
calculate_sortino_ratio_unguarded(rets, target_return, rf) ==
    LET rf_daily == RDiv(rf, RInt(TRADING_DAYS_PER_YEAR))
        excess_returns == [i \in 1..Len(rets) |-> RSub(rets[i], rf_daily)]
        mean_excess == Mean(excess_returns)
        downside_returns ==
            MaskSelect(excess_returns,
                       [i \in 1..Len(rets) |-> RLt(excess_returns[i], target_return)])
        downside_dev ==
            Sqrt(Mean([i \in 1..Len(downside_returns) |->
                          RMul(downside_returns[i], downside_returns[i])]))
    IN  IF Len(downside_returns) = 0
        THEN (IF RGt(mean_excess, Zero) THEN Inf ELSE Zero)
        ELSE RMul(RDiv(mean_excess, downside_dev),
                  Sqrt(RInt(TRADING_DAYS_PER_YEAR)))

calculate_sortino_ratio(rets, target_return, rf) ==
    LET rf_daily == RDiv(rf, RInt(TRADING_DAYS_PER_YEAR))
        excess_returns == [i \in 1..Len(rets) |-> RSub(rets[i], rf_daily)]
        mean_excess == Mean(excess_returns)
        downside_returns ==
            MaskSelect(excess_returns,
                       [i \in 1..Len(rets) |-> RLt(excess_returns[i], target_return)])
        downside_dev ==
            Sqrt(Mean([i \in 1..Len(downside_returns) |->
                          RMul(downside_returns[i], downside_returns[i])]))
    IN  IF Len(downside_returns) = 0
        THEN (IF RGt(mean_excess, Zero) THEN Inf ELSE Zero)
        ELSE IF REq(downside_dev, Zero)
        THEN (IF RGt(mean_excess, Zero) THEN Inf ELSE Zero)
        ELSE RMul(RDiv(mean_excess, downside_dev),
                  Sqrt(RInt(TRADING_DAYS_PER_YEAR)))

RECURSIVE MaxOf(_)
\* np.max of a non-empty array of finite numbers
MaxOf(s) ==
    IF Len(s) = 1 THEN s[1]
    ELSE LET m == MaxOf(Tail(s)) IN IF RGe(s[1], m) THEN s[1] ELSE m

\* np.min of a non-empty array of finite numbers
MinOf(s) == RNeg(MaxOf([i \in 1..Len(s) |-> RNeg(s[i])]))

\* np.argmax and np.argmin: the first position of the extreme value, from 0
ArgMax(s) == (CHOOSE i \in 1..Len(s) :
                 s[i] = MaxOf(s) /\ \A j \in 1..(i - 1) : s[j] # MaxOf(s)) - 1
ArgMin(s) == (CHOOSE i \in 1..Len(s) :
                 s[i] = MinOf(s) /\ \A j \in 1..(i - 1) : s[j] # MinOf(s)) - 1

\* np.maximum.accumulate
CumulativeMax(prices) == [i \in 1..Len(prices) |-> MaxOf(Prefix(prices, i))]

\* faulty variant of calculate_max_drawdown: the peak is the highest price of the
\* whole series
calculate_max_drawdown_global_peak(prices) ==
    LET cumulative_max == CumulativeMax(prices)
        drawdowns == [i \in 1..Len(prices) |->
                         RDiv(RSub(prices[i], cumulative_max[i]), cumulative_max[i])]
    IN  IF prices = <<>> THEN Raise("ValueError")
        ELSE [max_dd |-> MinOf(drawdowns),
              peak_idx |-> ArgMax(prices),
              trough_idx |-> ArgMin(drawdowns)]

\* prices are finite and not zero; indices count from 0 as in the source
calculate_max_drawdown(prices) ==
    LET cumulative_max == CumulativeMax(prices)
        drawdowns == [i \in 1..Len(prices) |->
                         RDiv(RSub(prices[i], cumulative_max[i]), cumulative_max[i])]
        trough_idx == ArgMin(drawdowns)
    IN  IF prices = <<>> THEN Raise("ValueError")  \* np.min of an empty array
        ELSE [max_dd |-> MinOf(drawdowns),
              peak_idx |-> ArgMax(Prefix(prices, trough_idx + 1)),
              trough_idx |-> trough_idx]

calculate_calmar_ratio(rets, prices) ==
    LET annual_return == RMul(Mean(rets), RInt(TRADING_DAYS_PER_YEAR))
        dd == calculate_max_drawdown(prices)
    IN  IF IsRaise(dd) THEN dd
        ELSE IF REq(dd.max_dd, Zero)
        THEN (IF RGt(annual_return, Zero) THEN Inf ELSE Zero)
        ELSE RDiv(annual_return, RAbs(dd.max_dd))

-----------------------------------------------------------------------------
(* AttributionAnalyzer (analytics/attribution.py) *)

calculate_alpha_beta_decomposition(portfolio_rets, bench, rf) ==
    LET t == TruncateReturns(portfolio_rets, bench)
        covariance == Cov1(t[1], t[2])
        benchmark_variance == Var1(t[2])
        beta == IF REq(benchmark_variance, Zero) THEN Zero
                ELSE RDiv(covariance, benchmark_variance)
        rf_daily == RDiv(rf, RInt(TRADING_DAYS_PER_YEAR))
        portfolio_excess == RSub(Mean(t[1]), rf_daily)
        benchmark_excess == RSub(Mean(t[2]), rf_daily)
        daily_alpha == RSub(portfolio_excess, RMul(beta, benchmark_excess))
    IN  IF Len(t[1]) # Len(t[2]) THEN Raise("ValueError")  \* np.cov
        ELSE [alpha |-> RMul(daily_alpha, RInt(TRADING_DAYS_PER_YEAR)),
              beta |-> beta,
              beta_contribution |->
                  RMul(RMul(beta, Mean(t[2])), RInt(TRADING_DAYS_PER_YEAR))]

\* dict.get(key, default)
Get(d, key, default) == IF key \in DOMAIN d THEN d[key] ELSE default

\* the effects of the Brinson-Hood-Beebower variant: the allocation effect is
\* not taken relative to the total benchmark return
calculate_brinson_hood_beebower_attribution(portfolio_weights, benchmark_weights, portfolio_returns, benchmark_rets, order) ==
    [k \in 1..Len(order) |->
        LET sector == order[k]
            pw == Get(portfolio_weights, sector, Zero)
            bw == Get(benchmark_weights, sector, Zero)
            pr == Get(portfolio_returns, sector, Zero)
            br == Get(benchmark_rets, sector, Zero)
            allocation == RMul(RSub(pw, bw), br)
            selection == RMul(bw, RSub(pr, br))
            interaction == RMul(RSub(pw, bw), RSub(pr, br))
        IN  [sector |-> sector,
             portfolio_weight |-> pw,
             benchmark_weight |-> bw,
             portfolio_return |-> pr,
             benchmark_return |-> br,
             allocation_effect |-> allocation,
             selection_effect |-> selection,
             interaction_effect |-> interaction,
             total_effect |-> RAdd(RAdd(allocation, selection), interaction)]]

\* faulty variant of calculate_brinson_fachler_attribution: the interaction
\* effect is left out of total_effect
calculate_brinson_fachler_attribution_no_interaction(portfolio_weights, benchmark_weights, portfolio_returns, benchmark_rets, order) ==
    LET total_benchmark_return ==
            SumSeq([k \in 1..Len(order) |->
                       RMul(Get(benchmark_weights, order[k], Zero),
                            Get(benchmark_rets, order[k], Zero))])
    IN  [k \in 1..Len(order) |->
            LET sector == order[k]
                pw == Get(portfolio_weights, sector, Zero)
                bw == Get(benchmark_weights, sector, Zero)
                pr == Get(portfolio_returns, sector, Zero)
                br == Get(benchmark_rets, sector, Zero)
                allocation == RMul(RSub(pw, bw), RSub(br, total_benchmark_return))
                selection == RMul(bw, RSub(pr, br))
                interaction == RMul(RSub(pw, bw), RSub(pr, br))
            IN  [sector |-> sector,
                 portfolio_weight |-> pw,
                 benchmark_weight |-> bw,
                 portfolio_return |-> pr,
                 benchmark_return |-> br,
                 allocation_effect |-> allocation,
                 selection_effect |-> selection,
                 interaction_effect |-> interaction,
                 total_effect |-> RAdd(allocation, selection)]]

\* order is the order in which the set all_sectors is iterated
calculate_brinson_fachler_attribution(portfolio_weights, benchmark_weights, portfolio_returns, benchmark_rets, order) ==
    LET total_benchmark_return ==
            SumSeq([k \in 1..Len(order) |->
                       RMul(Get(benchmark_weights, order[k], Zero),
                            Get(benchmark_rets, order[k], Zero))])
    IN  [k \in 1..Len(order) |->
            LET sector == order[k]
                pw == Get(portfolio_weights, sector, Zero)
                bw == Get(benchmark_weights, sector, Zero)
                pr == Get(portfolio_returns, sector, Zero)
                br == Get(benchmark_rets, sector, Zero)
                allocation == RMul(RSub(pw, bw), RSub(br, total_benchmark_return))
                selection == RMul(bw, RSub(pr, br))
                interaction == RMul(RSub(pw, bw), RSub(pr, br))
            IN  [sector |-> sector,
                 portfolio_weight |-> pw,
                 benchmark_weight |-> bw,
                 portfolio_return |-> pr,
                 benchmark_return |-> br,
                 allocation_effect |-> allocation,
                 selection_effect |-> selection,
                 interaction_effect |-> interaction,
                 total_effect |-> RAdd(RAdd(allocation, selection), interaction)]]


-----------------------------------------------------------------------------
(* scipy.optimize.minimize(method="SLSQP"), the solver behind the optimizer.

   A problem is [obj_func, x0, bounds, constraints, mu, cov, rf]: the name of
   the objective closure, the start vector, the (lb, ub) pair every asset
   gets, the equality constraints, and the data the closures captured.  The
   solver searches the weight vectors whose components are multiples of
   1/WeightGrid.  When it reports success its x lies within the bounds,
   satisfies every equality constraint and minimises the objective over all
   such vectors.  It may report non-convergence on any problem, with its
   diagnostic message and the point its iteration stopped at.  It is
   deterministic: within one call of the optimizer, the same problem gets
   the same result. *)

Dot(a, b) == SumSeq([i \in 1..Len(a) |-> RMul(a[i], b[i])])
MatVec(m, w) == [i \in 1..Len(m) |-> Dot(m[i], w)]
\* np.dot(w.T, np.dot(cov, w))
Quad(w, m) == Dot(w, MatVec(m, w))

\* the value of an equality constraint's function at x
ConstraintFun(c, x, p) ==
    CASE c.fun = "sum_minus_1" -> RSub(SumSeq(x), One)
      [] c.fun = "return_minus_target" -> RSub(Dot(x, p.mu), c.target)
      [] c.fun = "volatility_minus_target" ->
             RSub(Sqrt(Quad(x, p.cov)), c.target)

\* the value of the objective closure at x
ObjectiveFun(p, x) ==
    CASE p.obj_func = "neg_sharpe" ->
             LET ret == Dot(x, p.mu)
                 vol == Sqrt(Quad(x, p.cov))
             IN  IF REq(vol, Zero) THEN Zero
                 ELSE RNeg(RDiv(RSub(ret, p.rf), vol))
      [] p.obj_func = "portfolio_variance" -> Quad(x, p.cov)
      [] p.obj_func = "neg_return" -> RNeg(Dot(x, p.mu))
      [] p.obj_func = "risk_parity_objective" ->
             LET n == Len(x)
                 portfolio_vol == Sqrt(Quad(x, p.cov))
                 sw == MatVec(p.cov, x)
                 rc == IF REq(portfolio_vol, Zero) THEN [i \in 1..n |-> Zero]
                       ELSE [i \in 1..n |->
                                RMul(x[i], RDiv(sw[i], portfolio_vol))]
                 total_risk == SumSeq(rc)
             IN  IF REq(total_risk, Zero) THEN Zero
                 ELSE SumSeq([i \in 1..n |->
                         LET dev == RSub(RDiv(rc[i], total_risk),
                                         p.risk_budget[i])
                         IN  RMul(dev, dev)])

\* the multiples of 1/WeightGrid within the bounds
GridWeights(bounds) ==
    {R(k, WeightGrid) : k \in {j \in (-WeightGrid)..(2 * WeightGrid) :
        RLe(bounds[1], R(j, WeightGrid)) /\ RLe(R(j, WeightGrid), bounds[2])}}

Box(p) == [1..Len(p.x0) -> GridWeights(p.bounds)]

FeasibleSet(p) ==
    {x \in Box(p) :
        \A i \in 1..Len(p.constraints) :
            REq(ConstraintFun(p.constraints[i], x, p), Zero)}

Minimizers(p) ==
    LET feasible == FeasibleSet(p)
        value == [x \in feasible |-> ObjectiveFun(p, x)]
    IN  {x \in feasible : \A y \in feasible : RLe(value[x], value[y])}

\* the results the solver can return with success
Converged(p) ==
    {[success |-> TRUE, x |-> x,
      message |-> "Optimization terminated successfully", nit |-> 1] :
        x \in Minimizers(p)}

\* the result the solver returns without: no vector satisfies the
\* constraints, or the iteration limit is reached somewhere in the box
NotConverged(p) ==
    IF FeasibleSet(p) = {}
    THEN [success |-> FALSE, x |-> p.x0,
          message |-> "Positive directional derivative for linesearch",
          nit |-> 1]
    ELSE [success |-> FALSE, x |-> [i \in 1..Len(p.x0) |-> p.bounds[1]],
          message |-> "Iteration limit reached", nit |-> MAXITER]

Minimize(p) == Converged(p) \cup {NotConverged(p)}

-----------------------------------------------------------------------------
(* PortfolioOptimizer (analytics/optimization.py) *)

\* OptimizationConstraints(), the fields mean_variance_optimization reads
DefaultConstraints ==
    [min_weight |-> Zero, max_weight |-> One, target_return |-> None,
     target_volatility |-> None, long_only |-> TRUE]

\* Python's truth value of an Optional[float]
Truthy(v) == v # None /\ v # Zero

\* dict(zip(keys, values)): a later pair replaces an earlier one with its key
DictZip(keys, values) ==
    [k \in {keys[i] : i \in 1..Len(keys)} |->
        values[CHOOSE i \in 1..Len(keys) :
                  /\ keys[i] = k
                  /\ \A j \in 1..Len(keys) : keys[j] = k => j <= i]]

calculate_portfolio_stats(weights, mu, cov, rf) ==
    LET portfolio_return == Dot(weights, mu)
        portfolio_vol == Sqrt(Quad(weights, cov))
    IN  [ret |-> portfolio_return,
         vol |-> portfolio_vol,
         sharpe |-> IF REq(portfolio_vol, Zero) THEN Zero
                    ELSE RDiv(RSub(portfolio_return, rf), portfolio_vol)]

\* init_weights: equal weight
InitWeights(n_assets) == [i \in 1..n_assets |-> R(1, n_assets)]

\* faulty variant of MvBounds: the lower bound is not raised to 0 when long-only
MvBoundsUnclamped(cons) == <<cons.min_weight, cons.max_weight>>

\* the (lb, ub) pair mean_variance_optimization gives every asset
MvBounds(cons) ==
    IF cons.long_only
    THEN <<(IF RGe(Zero, cons.min_weight) THEN Zero ELSE cons.min_weight),
           cons.max_weight>>
    ELSE <<cons.min_weight, cons.max_weight>>

\* opt_constraints: sum to one, and the target pins that are added
MvConstraints(objective, cons) ==
    <<[fun |-> "sum_minus_1"]>>
    \o (IF objective = "TARGET_RETURN" /\ Truthy(cons.target_return)
        THEN <<[fun |-> "return_minus_target", target |-> cons.target_return]>>
        ELSE <<>>)
    \o (IF objective = "TARGET_VOLATILITY" /\ Truthy(cons.target_volatility)
        THEN <<[fun |-> "volatility_minus_target",
                target |-> cons.target_volatility]>>
        ELSE <<>>)

\* obj_func, or the ValueError of an unsupported objective
MvObjective(objective) ==
    CASE objective = "MAX_SHARPE" -> "neg_sharpe"
      [] objective = "MIN_VARIANCE" -> "portfolio_variance"
      [] objective = "MAX_RETURN" -> "neg_return"
      [] objective \in {"TARGET_RETURN", "TARGET_VOLATILITY"} ->
             "portfolio_variance"
      [] OTHER -> "ValueError"

\* the program mean_variance_optimization hands to optimize.minimize
MvProblem(syms, mu, cov, objective, constraints, rf) ==
    LET cons == IF constraints = None THEN DefaultConstraints ELSE constraints
    IN  [obj_func |-> MvObjective(objective),
         x0 |-> InitWeights(Len(syms)),
         bounds |-> MvBounds(cons),
         constraints |-> MvConstraints(objective, cons),
         mu |-> mu, cov |-> cov, rf |-> rf]

\* faulty variant of MvResult: a failed solve returns the point the solver stopped at
MvResultStopPoint(syms, mu, cov, rf, init_weights, result) ==
    LET stats == calculate_portfolio_stats(result.x, mu, cov, rf)
    IN  IF result.success
        THEN [weights |-> DictZip(syms, result.x),
              expected_return |-> stats.ret,
              expected_volatility |-> stats.vol,
              sharpe_ratio |-> stats.sharpe,
              success |-> TRUE,
              message |-> "Optimization successful",
              iterations |-> result.nit]
        ELSE [weights |-> DictZip(syms, result.x),
              expected_return |-> Zero,
              expected_volatility |-> Zero,
              sharpe_ratio |-> Zero,
              success |-> FALSE,
              message |-> result.message,
              iterations |-> result.nit]

\* the OptimizationResult built from the solver's result
MvResult(syms, mu, cov, rf, init_weights, result) ==
    LET stats == calculate_portfolio_stats(result.x, mu, cov, rf)
    IN  IF result.success
        THEN [weights |-> DictZip(syms, result.x),
              expected_return |-> stats.ret,
              expected_volatility |-> stats.vol,
              sharpe_ratio |-> stats.sharpe,
              success |-> TRUE,
              message |-> "Optimization successful",
              iterations |-> result.nit]
        ELSE [weights |-> DictZip(syms, init_weights),
              expected_return |-> Zero,
              expected_volatility |-> Zero,
              sharpe_ratio |-> Zero,
              success |-> FALSE,
              message |-> result.message,
              iterations |-> result.nit]

\* mean_variance_optimization, given what the solver returned: result is an
\* element of Minimize(MvProblem(...)) and is not looked at when the
\* objective is unsupported
mean_variance_optimization(syms, mu, cov, objective, constraints, rf, result) ==
    IF MvObjective(objective) = "ValueError" THEN Raise("ValueError")
    ELSE MvResult(syms, mu, cov, rf, InitWeights(Len(syms)), result)

\* the program risk_parity_optimization hands to optimize.minimize
RpProblem(syms, cov, risk_budget) ==
    LET n_assets == Len(syms)
    IN  [obj_func |-> "risk_parity_objective",
         x0 |-> InitWeights(n_assets),
         bounds |-> <<R(1, 100), One>>,
         constraints |-> <<[fun |-> "sum_minus_1"]>>,
         mu |-> <<>>, cov |-> cov, rf |-> Zero,
         risk_budget |-> IF risk_budget = None
                         THEN [i \in 1..n_assets |-> R(1, n_assets)]
                         ELSE risk_budget]

\* risk_parity_optimization, given what the solver returned
risk_parity_optimization(syms, cov, risk_budget, result) ==
    LET init_weights == InitWeights(Len(syms))
    IN  IF result.success
        THEN [weights |-> DictZip(syms, result.x),
              expected_return |-> Zero,
              expected_volatility |-> Sqrt(Quad(result.x, cov)),
              sharpe_ratio |-> Zero,
              success |-> TRUE,
              message |-> "Risk parity optimization successful",
              iterations |-> result.nit]
        ELSE [weights |-> DictZip(syms, init_weights),
              expected_return |-> Zero,
              expected_volatility |-> Zero,
              sharpe_ratio |-> Zero,
              success |-> FALSE,
              message |-> result.message,
              iterations |-> result.nit]

calculate_marginal_contribution_to_risk(weights, cov) ==
    LET portfolio_vol == Sqrt(Quad(weights, cov))
        sw == MatVec(cov, weights)
    IN  IF REq(portfolio_vol, Zero) THEN [i \in 1..Len(weights) |-> Zero]
        ELSE [i \in 1..Len(weights) |-> RDiv(sw[i], portfolio_vol)]

\* faulty variant of calculate_risk_contribution: the zero total is not guarded
calculate_risk_contribution_unguarded(weights, cov) ==
    LET mcr == calculate_marginal_contribution_to_risk(weights, cov)
        absolute_contribution ==
            [i \in 1..Len(weights) |-> RMul(weights[i], mcr[i])]
        total_risk == SumSeq(absolute_contribution)
    IN  [absolute_contribution |-> absolute_contribution,
         percentage_contribution |->
             [i \in 1..Len(weights) |->
                 RDiv(absolute_contribution[i], total_risk)]]

calculate_risk_contribution(weights, cov) ==
    LET mcr == calculate_marginal_contribution_to_risk(weights, cov)
        absolute_contribution ==
            [i \in 1..Len(weights) |-> RMul(weights[i], mcr[i])]
        total_risk == SumSeq(absolute_contribution)
    IN  [absolute_contribution |-> absolute_contribution,
         percentage_contribution |->
             IF REq(total_risk, Zero) THEN [i \in 1..Len(weights) |-> Zero]
             ELSE [i \in 1..Len(weights) |->
                      RDiv(absolute_contribution[i], total_risk)]]

\* np.linspace(a, b, n)
Linspace(a, b, n) ==
    [k \in 1..n |-> IF n = 1 THEN a
                    ELSE RAdd(a, RMul(R(k - 1, n - 1), RSub(b, a)))]

\* the constraints efficient_frontier builds for one target return
FrontierConstraints(constraints, target) ==
    IF constraints = None
    THEN [DefaultConstraints EXCEPT !.target_return = target]
    ELSE [min_weight |-> constraints.min_weight,
          max_weight |-> constraints.max_weight,
          target_return |-> target,
          target_volatility |-> None,
          long_only |-> constraints.long_only]

\* the successful results among rs, in order
RECURSIVE Successful(_)
Successful(rs) ==
    IF rs = <<>> THEN <<>>
    ELSE IF Head(rs).success THEN <<Head(rs)>> \o Successful(Tail(rs))
    ELSE Successful(Tail(rs))

\* efficient_frontier, given what the solver returned for the two endpoint
\* problems (run.min, run.max) and for the target problems (run.targets[k],
\* looked at only when the loop is reached)
efficient_frontier(syms, mu, cov, n_points, constraints, rf, run) ==
    LET min_ret_result ==
            mean_variance_optimization(syms, mu, cov, "MIN_VARIANCE",
                                       constraints, rf, run.min)
        max_ret_result ==
            mean_variance_optimization(syms, mu, cov, "MAX_RETURN",
                                       constraints, rf, run.max)
        min_ret == min_ret_result.expected_return
        max_ret == max_ret_result.expected_return
        target_returns == Linspace(min_ret, max_ret, n_points)
    IN  IF RGe(min_ret, max_ret) THEN <<min_ret_result>>
        ELSE Successful(
                 [k \in 1..n_points |->
                     mean_variance_optimization(
                         syms, mu, cov, "TARGET_RETURN",
                         FrontierConstraints(constraints, target_returns[k]),
                         rf, run.targets[k])])

\* the problems of the loop of efficient_frontier after the endpoint results
FrontierProblems(syms, mu, cov, n_points, constraints, rf, rmin, rmax) ==
    LET min_ret == mean_variance_optimization(syms, mu, cov, "MIN_VARIANCE",
                       constraints, rf, rmin).expected_return
        max_ret == mean_variance_optimization(syms, mu, cov, "MAX_RETURN",
                       constraints, rf, rmax).expected_return
        target_returns == Linspace(min_ret, max_ret, n_points)
    IN  [k \in 1..n_points |->
            MvProblem(syms, mu, cov, "TARGET_RETURN",
                      FrontierConstraints(constraints, target_returns[k]), rf)]

\* the sequences that take their k-th element from choices[k]
RECURSIVE ProductSeq(_)
ProductSeq(choices) ==
    IF choices = <<>> THEN {<<>>}
    ELSE {<<h>> \o t : h \in Head(choices), t \in ProductSeq(Tail(choices))}

\* what the solver can return during one call of efficient_frontier: a
\* result for each problem posed, the same for the same problem
FrontierRuns(syms, mu, cov, n_points, constraints, rf) ==
    LET pmin == MvProblem(syms, mu, cov, "MIN_VARIANCE", constraints, rf)
        pmax == MvProblem(syms, mu, cov, "MAX_RETURN", constraints, rf)
    IN  UNION {
          LET ps == FrontierProblems(syms, mu, cov, n_points, constraints, rf,
                                     rmin, rmax)
              min_ret == MvResult(syms, mu, cov, rf, pmin.x0,
                                  rmin).expected_return
              max_ret == MvResult(syms, mu, cov, rf, pmax.x0,
                                  rmax).expected_return
              choices == [k \in 1..n_points |->
                             IF ps[k] = pmin THEN {rmin} ELSE Minimize(ps[k])]
          IN  {[min |-> rmin, max |-> rmax, targets |-> ts] :
                  ts \in IF RGe(min_ret, max_ret) THEN {<<>>}
                         ELSE ProductSeq(choices)}
          : rmin \in Minimize(pmin), rmax \in Minimize(pmax)}

-----------------------------------------------------------------------------
(* StressTestEngine (analytics/stress_testing.py)

   A dict is the sequence of its items [key, value] in insertion order.  A
   Scenario is the record of its fields; description, start_date and
   end_date, which no method reads, are left out. *)

\* the members of the enum ScenarioType
HISTORICAL == [ScenarioType |-> "historical"]
HYPOTHETICAL == [ScenarioType |-> "hypothetical"]
CUSTOM == [ScenarioType |-> "custom"]

\* the dict literal HISTORICAL_SCENARIOS, in the order it is written
HistoricalSeed ==
    <<
      [key |-> "GFC_2008",
       value |-> [name |-> "Global Financial Crisis 2008", scenario_type |-> HISTORICAL,
                 equity_shock |-> R(-9, 20), rates_shock_bps |-> RInt(-200),
                 credit_spread_shock_bps |-> RInt(500), volatility_shock |-> RInt(60),
                 fx_shocks |-> <<>>,
                 commodity_shocks |-> <<>>]],
      [key |-> "COVID_2020",
       value |-> [name |-> "COVID Crash 2020", scenario_type |-> HISTORICAL,
                 equity_shock |-> R(-7, 20), rates_shock_bps |-> RInt(-150),
                 credit_spread_shock_bps |-> RInt(350), volatility_shock |-> RInt(65),
                 fx_shocks |-> <<>>,
                 commodity_shocks |-> <<>>]],
      [key |-> "DOTCOM_2000",
       value |-> [name |-> "Dot-Com Crash 2000", scenario_type |-> HISTORICAL,
                 equity_shock |-> R(-1, 2), rates_shock_bps |-> RInt(-300),
                 credit_spread_shock_bps |-> RInt(200), volatility_shock |-> RInt(30),
                 fx_shocks |-> <<>>,
                 commodity_shocks |-> <<>>]],
      [key |-> "INFLATION_2022",
       value |-> [name |-> "Inflation Spike 2022", scenario_type |-> HISTORICAL,
                 equity_shock |-> R(-1, 4), rates_shock_bps |-> RInt(300),
                 credit_spread_shock_bps |-> RInt(150), volatility_shock |-> RInt(15),
                 fx_shocks |-> <<>>,
                 commodity_shocks |-> <<>>]],
      [key |-> "FED_TAPER_2013",
       value |-> [name |-> "Taper Tantrum 2013", scenario_type |-> HISTORICAL,
                 equity_shock |-> R(-2, 25), rates_shock_bps |-> RInt(100),
                 credit_spread_shock_bps |-> RInt(50), volatility_shock |-> RInt(8),
                 fx_shocks |-> <<>>,
                 commodity_shocks |-> <<>>]],
      [key |-> "OIL_CRASH_2014",
       value |-> [name |-> "Oil Price Crash 2014-2015", scenario_type |-> HISTORICAL,
                 equity_shock |-> R(-1, 10), rates_shock_bps |-> RInt(-50),
                 credit_spread_shock_bps |-> RInt(200), volatility_shock |-> Zero,
                 fx_shocks |-> <<>>,
                 commodity_shocks |-> ("OIL" :> R(-7, 10) @@ "NATURAL_GAS" :> R(-3, 10))]],
      [key |-> "CHINA_DEVALUATION_2015",
       value |-> [name |-> "China Devaluation 2015", scenario_type |-> HISTORICAL,
                 equity_shock |-> R(-3, 25), rates_shock_bps |-> RInt(-25),
                 credit_spread_shock_bps |-> RInt(100), volatility_shock |-> Zero,
                 fx_shocks |-> ("USD/CNY" :> R(1, 20) @@ "USD/EUR" :> R(-3, 100)),
                 commodity_shocks |-> <<>>]]
    >>

\* the dict literal HYPOTHETICAL_SCENARIOS, in the order it is written
HypotheticalSeed ==
    <<
      [key |-> "RATES_UP_200",
       value |-> [name |-> "Rates +200bps", scenario_type |-> HYPOTHETICAL,
                 equity_shock |-> R(-1, 10), rates_shock_bps |-> RInt(200),
                 credit_spread_shock_bps |-> RInt(50), volatility_shock |-> Zero,
                 fx_shocks |-> <<>>,
                 commodity_shocks |-> <<>>]],
      [key |-> "RATES_DOWN_200",
       value |-> [name |-> "Rates -200bps", scenario_type |-> HYPOTHETICAL,
                 equity_shock |-> R(1, 20), rates_shock_bps |-> RInt(-200),
                 credit_spread_shock_bps |-> RInt(-25), volatility_shock |-> Zero,
                 fx_shocks |-> <<>>,
                 commodity_shocks |-> <<>>]],
      [key |-> "EQUITY_VOL_40",
       value |-> [name |-> "Equity Vol +40", scenario_type |-> HYPOTHETICAL,
                 equity_shock |-> R(-3, 20), rates_shock_bps |-> Zero,
                 credit_spread_shock_bps |-> RInt(100), volatility_shock |-> RInt(40),
                 fx_shocks |-> <<>>,
                 commodity_shocks |-> <<>>]],
      [key |-> "EQUITY_VOL_80",
       value |-> [name |-> "Equity Vol +80", scenario_type |-> HYPOTHETICAL,
                 equity_shock |-> R(-3, 10), rates_shock_bps |-> Zero,
                 credit_spread_shock_bps |-> RInt(250), volatility_shock |-> RInt(80),
                 fx_shocks |-> <<>>,
                 commodity_shocks |-> <<>>]],
      [key |-> "EQUITY_VOL_120",
       value |-> [name |-> "Equity Vol +120", scenario_type |-> HYPOTHETICAL,
                 equity_shock |-> R(-9, 20), rates_shock_bps |-> Zero,
                 credit_spread_shock_bps |-> RInt(500), volatility_shock |-> RInt(120),
                 fx_shocks |-> <<>>,
                 commodity_shocks |-> <<>>]],
      [key |-> "CREDIT_CRISIS",
       value |-> [name |-> "Credit Crisis", scenario_type |-> HYPOTHETICAL,
                 equity_shock |-> R(-1, 5), rates_shock_bps |-> RInt(-100),
                 credit_spread_shock_bps |-> RInt(400), volatility_shock |-> Zero,
                 fx_shocks |-> <<>>,
                 commodity_shocks |-> <<>>]],
      [key |-> "STAGFLATION",
       value |-> [name |-> "Stagflation", scenario_type |-> HYPOTHETICAL,
                 equity_shock |-> R(-1, 4), rates_shock_bps |-> RInt(150),
                 credit_spread_shock_bps |-> RInt(200), volatility_shock |-> Zero,
                 fx_shocks |-> <<>>,
                 commodity_shocks |-> ("OIL" :> R(2, 5) @@ "GOLD" :> R(1, 5))]],
      [key |-> "USD_CRISIS",
       value |-> [name |-> "USD Crisis", scenario_type |-> HYPOTHETICAL,
                 equity_shock |-> R(-1, 10), rates_shock_bps |-> RInt(50),
                 credit_spread_shock_bps |-> Zero, volatility_shock |-> Zero,
                 fx_shocks |-> ("USD/EUR" :> R(-3, 20) @@ "USD/JPY" :> R(-1, 10) @@ "USD/GBP" :> R(-3, 25)),
                 commodity_shocks |-> <<>>]],
      [key |-> "EM_CONTAGION",
       value |-> [name |-> "EM Contagion", scenario_type |-> HYPOTHETICAL,
                 equity_shock |-> R(-1, 5), rates_shock_bps |-> RInt(-50),
                 credit_spread_shock_bps |-> RInt(300), volatility_shock |-> Zero,
                 fx_shocks |-> ("USD/BRL" :> R(1, 4) @@ "USD/MXN" :> R(1, 5) @@ "USD/ZAR" :> R(3, 10)),
                 commodity_shocks |-> <<>>]],
      [key |-> "COMMODITY_CRASH",
       value |-> [name |-> "Commodity Crash", scenario_type |-> HYPOTHETICAL,
                 equity_shock |-> R(-3, 20), rates_shock_bps |-> RInt(-100),
                 credit_spread_shock_bps |-> Zero, volatility_shock |-> Zero,
                 fx_shocks |-> <<>>,
                 commodity_shocks |-> ("OIL" :> R(-2, 5) @@ "COPPER" :> R(-3, 10) @@ "IRON_ORE" :> R(-7, 20))]]
    >>

\* d.get(key), None when the key is missing
DictGet(d, key) ==
    IF \E i \in 1..Len(d) : d[i].key = key
    THEN d[CHOOSE i \in 1..Len(d) : d[i].key = key].value
    ELSE None

\* d[key] = value: a present key keeps its place, a new key goes last
DictSet(d, key, value) ==
    IF \E i \in 1..Len(d) : d[i].key = key
    THEN [i \in 1..Len(d) |-> IF d[i].key = key
                               THEN [key |-> key, value |-> value] ELSE d[i]]
    ELSE Append(d, [key |-> key, value |-> value])

RECURSIVE DictUpdate(_, _)
\* d.update(other)
DictUpdate(d, other) ==
    IF other = <<>> THEN d
    ELSE DictUpdate(DictSet(d, Head(other).key, Head(other).value), Tail(other))

DictKeys(d) == [i \in 1..Len(d) |-> d[i].key]

\* the catalog of a new engine, given the two module-level dicts
StressTestEngineInit(historical, hypothetical) ==
    DictUpdate(DictUpdate(<<>>, historical), hypothetical)

\* faulty variant of add_scenario: a key already in the catalog keeps its scenario
add_scenario_if_absent(scenarios, key, scenario) ==
    IF DictGet(scenarios, key) = None THEN DictSet(scenarios, key, scenario)
    ELSE scenarios

\* the catalog after add_scenario
add_scenario(scenarios, key, scenario) == DictSet(scenarios, key, scenario)

get_scenario(scenarios, key) == DictGet(scenarios, key)

RECURSIVE FilterType(_, _)
\* [k for k, v in d.items() if v.scenario_type == scenario_type]
FilterType(d, scenario_type) ==
    IF d = <<>> THEN <<>>
    ELSE IF Head(d).value.scenario_type = scenario_type
    THEN <<Head(d).key>> \o FilterType(Tail(d), scenario_type)
    ELSE FilterType(Tail(d), scenario_type)

\* faulty variant of list_scenarios: the filter is ignored
list_scenarios_unfiltered(scenarios, scenario_type) == DictKeys(scenarios)

list_scenarios(scenarios, scenario_type) ==
    IF scenario_type = None THEN DictKeys(scenarios)
    ELSE FilterType(scenarios, scenario_type)

\* the sum of the values of a dict of numbers, taken in order from 0.0
DictSum(d) == SumSeq([i \in 1..Len(d) |-> d[i].value])

\* faulty variant of calculate_equity_impact: the beta of a position is left out
calculate_equity_impact_unit_beta(positions, equity_shock) ==
    LET position_impacts ==
            [i \in 1..Len(positions) |->
                [key |-> positions[i].key,
                 value |-> RMul(positions[i].value.value, equity_shock)]]
    IN  [total_impact |-> DictSum(position_impacts),
         position_impacts |-> position_impacts]

\* positions: symbol -> [value, beta]
calculate_equity_impact(positions, equity_shock) ==
    LET position_impacts ==
            [i \in 1..Len(positions) |->
                [key |-> positions[i].key,
                 value |-> RMul(RMul(positions[i].value.value,
                                     positions[i].value.beta), equity_shock)]]
    IN  [total_impact |-> DictSum(position_impacts),
         position_impacts |-> position_impacts]

\* faulty variant of calculate_fixed_income_impact: the credit spread shock is
\* left out of the combined shock
calculate_fixed_income_impact_rates_only(positions, rates_shock_bps, credit_spread_shock_bps) ==
    LET total_shock_decimal == RDiv(rates_shock_bps, RInt(10000))
        position_impacts ==
            [i \in 1..Len(positions) |->
                LET pos == positions[i].value
                    duration_impact ==
                        RMul(RMul(RNeg(pos.duration), total_shock_decimal), pos.value)
                    convexity_impact ==
                        RMul(RMul(RMul(R(1, 2), pos.convexity),
                                  RMul(total_shock_decimal, total_shock_decimal)),
                             pos.value)
                IN  [key |-> positions[i].key,
                     value |-> RAdd(duration_impact, convexity_impact)]]
    IN  [total_impact |-> DictSum(position_impacts),
         position_impacts |-> position_impacts]

\* positions: symbol -> [value, duration, convexity]
calculate_fixed_income_impact(positions, rates_shock_bps, credit_spread_shock_bps) ==
    LET total_shock_decimal ==
            RDiv(RAdd(rates_shock_bps, credit_spread_shock_bps), RInt(10000))
        position_impacts ==
            [i \in 1..Len(positions) |->
                LET pos == positions[i].value
                    duration_impact ==
                        RMul(RMul(RNeg(pos.duration), total_shock_decimal), pos.value)
                    convexity_impact ==
                        RMul(RMul(RMul(R(1, 2), pos.convexity),
                                  RMul(total_shock_decimal, total_shock_decimal)),
                             pos.value)
                IN  [key |-> positions[i].key,
                     value |-> RAdd(duration_impact, convexity_impact)]]
    IN  [total_impact |-> DictSum(position_impacts),
         position_impacts |-> position_impacts]

\* calculate_fx_impact and calculate_commodity_impact: exposure * shock, the
\* shock of a name the scenario does not list being 0.0
calculate_fx_impact(exposures, shocks) ==
    LET exposure_impacts ==
            [i \in 1..Len(exposures) |->
                [key |-> exposures[i].key,
                 value |-> RMul(exposures[i].value,
                                IF exposures[i].key \in DOMAIN shocks
                                THEN shocks[exposures[i].key] ELSE Zero)]]
    IN  [total_impact |-> DictSum(exposure_impacts),
         position_impacts |-> exposure_impacts]

calculate_commodity_impact(exposures, shocks) == calculate_fx_impact(exposures, shocks)

\* an Optional[dict] argument is None or [dict |-> items]; None and {} are false
DictTruthy(d) == d # None /\ d.dict # <<>>

NoImpact == [total_impact |-> Zero, position_impacts |-> <<>>]

\* faulty variant of run_scenario: the FX exposures count in full, whether or
\* not the scenario has FX shocks
run_scenario_fx_unguarded(scenario, equity_positions, fixed_income_positions, fx_exposures, commodity_exposures) ==
    LET eq == IF DictTruthy(equity_positions)
              THEN calculate_equity_impact(equity_positions.dict, scenario.equity_shock)
              ELSE NoImpact
        fi == IF DictTruthy(fixed_income_positions)
              THEN calculate_fixed_income_impact(fixed_income_positions.dict,
                       scenario.rates_shock_bps, scenario.credit_spread_shock_bps)
              ELSE NoImpact
        fx == IF DictTruthy(fx_exposures)
              THEN [total_impact |-> DictSum(fx_exposures.dict),
                    position_impacts |-> fx_exposures.dict]
              ELSE NoImpact
        co == IF DictTruthy(commodity_exposures) /\ scenario.commodity_shocks # <<>>
              THEN calculate_commodity_impact(commodity_exposures.dict,
                                              scenario.commodity_shocks)
              ELSE NoImpact
    IN  [scenario |-> scenario,
         portfolio_impact |->
             RAdd(RAdd(RAdd(eq.total_impact, fi.total_impact), fx.total_impact),
                  co.total_impact),
         equity_impact |-> eq.total_impact,
         fixed_income_impact |-> fi.total_impact,
         fx_impact |-> fx.total_impact,
         commodity_impact |-> co.total_impact,
         position_impacts |->
             DictUpdate(DictUpdate(DictUpdate(DictUpdate(<<>>,
                 eq.position_impacts), fi.position_impacts),
                 fx.position_impacts), co.position_impacts)]

run_scenario(scenario, equity_positions, fixed_income_positions, fx_exposures, commodity_exposures) ==
    LET eq == IF DictTruthy(equity_positions)
              THEN calculate_equity_impact(equity_positions.dict, scenario.equity_shock)
              ELSE NoImpact
        fi == IF DictTruthy(fixed_income_positions)
              THEN calculate_fixed_income_impact(fixed_income_positions.dict,
                       scenario.rates_shock_bps, scenario.credit_spread_shock_bps)
              ELSE NoImpact
        fx == IF DictTruthy(fx_exposures) /\ scenario.fx_shocks # <<>>
              THEN calculate_fx_impact(fx_exposures.dict, scenario.fx_shocks)
              ELSE NoImpact
        co == IF DictTruthy(commodity_exposures) /\ scenario.commodity_shocks # <<>>
              THEN calculate_commodity_impact(commodity_exposures.dict,
                                              scenario.commodity_shocks)
              ELSE NoImpact
    IN  [scenario |-> scenario,
         portfolio_impact |->
             RAdd(RAdd(RAdd(eq.total_impact, fi.total_impact), fx.total_impact),
                  co.total_impact),
         equity_impact |-> eq.total_impact,
         fixed_income_impact |-> fi.total_impact,
         fx_impact |-> fx.total_impact,
         commodity_impact |-> co.total_impact,
         position_impacts |->
             DictUpdate(DictUpdate(DictUpdate(DictUpdate(<<>>,
                 eq.position_impacts), fi.position_impacts),
                 fx.position_impacts), co.position_impacts)]

run_all_scenarios(scenarios, equity_positions, fixed_income_positions, fx_exposures, commodity_exposures, scenario_type) ==
    LET scenario_keys == list_scenarios(scenarios, scenario_type)
    IN  [i \in 1..Len(scenario_keys) |->
            run_scenario(DictGet(scenarios, scenario_keys[i]), equity_positions,
                         fixed_income_positions, fx_exposures, commodity_exposures)]

-----------------------------------------------------------------------------
(* AttributionAnalyzer, the period analysis (analytics/attribution.py).
   Sector dicts are functions from sector names, as in the Brinson-Fachler
   model above; factor dicts are ordered and are sequences of [key, value]
   records; an Optional argument is None or the wrapped value. *)

RECURSIVE SumFun(_, _)
\* the sum of f over the keys in S
SumFun(f, S) ==
    IF S = {} THEN Zero
    ELSE LET e == CHOOSE x \in S : TRUE
         IN  RAdd(f[e], SumFun(f, S \ {e}))

RECURSIVE Prod1p(_)
\* np.prod(1 + a)
Prod1p(a) == IF a = <<>> THEN One ELSE RMul(RAdd(One, Head(a)), Prod1p(Tail(a)))

calculate_factor_attribution(portfolio_rets, factor_exposures, factor_returns) ==
    LET present == SelectSeq(factor_exposures,
                             LAMBDA it : \E j \in 1..Len(factor_returns) :
                                             factor_returns[j].key = it.key)
    IN  [k \in 1..Len(present) |->
            LET factor == present[k].key
                exposure == present[k].value
                fr == DictGet(factor_returns, factor)
                min_len == Min(Len(portfolio_rets), Len(fr))
                mean_factor_return == Mean(Prefix(fr, min_len))
            IN  [factor |-> factor,
                 factor_exposure |-> exposure,
                 factor_return |-> mean_factor_return,
                 contribution |-> RMul(exposure, mean_factor_return)]]

\* the inner loop runs over the sectors of current_weights
calculate_timing_contribution(weights_series, returns_series) ==
    IF Len(weights_series) < 2 THEN Zero
    ELSE IF Len(returns_series) < Len(weights_series)
    THEN Raise("IndexError")  \* sector_returns_series[i]
    ELSE SumSeq([k \in 1..(Len(weights_series) - 1) |->
             LET current_weights == weights_series[k + 1]
                 prev_weights == weights_series[k]
                 rets == returns_series[k + 1]
             IN  SumFun([sector \in DOMAIN current_weights |->
                            RMul(RSub(Get(current_weights, sector, Zero),
                                      Get(prev_weights, sector, Zero)),
                                 Get(rets, sector, Zero))],
                        DOMAIN current_weights)])

\* trades are (symbol, shares, cost_per_share) records
calculate_transaction_cost_impact(trades, total_nav) ==
    LET total_cost == SumSeq([i \in 1..Len(trades) |->
                                 RMul(RAbs(trades[i].shares), trades[i].cost)])
    IN  IF REq(total_nav, Zero) THEN Zero
        ELSE RDiv(RNeg(total_cost), total_nav)

\* the truth value of an Optional list
ListTruthy(v) == v # None /\ v.list # <<>>

full_attribution_analysis(period_start, period_end, portfolio_rets, bench, portfolio_weights, benchmark_weights, sector_portfolio_returns, sector_benchmark_returns, factor_exposures, factor_returns, trades, total_nav, rf, order) ==
    LET total_portfolio_return == RSub(Prod1p(portfolio_rets), One)
        total_benchmark_return == RSub(Prod1p(bench), One)
        sector_attribution ==
            calculate_brinson_fachler_attribution(
                portfolio_weights, benchmark_weights,
                sector_portfolio_returns, sector_benchmark_returns, order)
        dec == calculate_alpha_beta_decomposition(portfolio_rets, bench, rf)
    IN  IF IsRaise(dec) THEN dec
        ELSE [period_start |-> period_start,
              period_end |-> period_end,
              portfolio_return |-> total_portfolio_return,
              benchmark_return |-> total_benchmark_return,
              excess_return |-> RSub(total_portfolio_return, total_benchmark_return),
              sector_attribution |-> sector_attribution,
              factor_attribution |->
                  IF DictTruthy(factor_exposures) /\ DictTruthy(factor_returns)
                  THEN calculate_factor_attribution(
                           portfolio_rets, factor_exposures.dict,
                           factor_returns.dict)
                  ELSE <<>>,
              alpha |-> dec.alpha,
              beta_contribution |-> dec.beta_contribution,
              selection_total |->
                  SumSeq([k \in 1..Len(sector_attribution) |->
                             sector_attribution[k].selection_effect]),
              allocation_total |->
                  SumSeq([k \in 1..Len(sector_attribution) |->
                             sector_attribution[k].allocation_effect]),
              timing_contribution |-> Zero,  \* the dataclass default
              transaction_cost_drag |->
                  IF ListTruthy(trades) /\ RGt(total_nav, Zero)
                  THEN calculate_transaction_cost_impact(trades.list, total_nav)
                  ELSE Zero]

-----------------------------------------------------------------------------
(* LiquidityAnalyzer (analytics/optimization.py) *)

estimate_market_impact(shares_to_trade, adv, spread_bps, volatility, participation_rate) ==
    LET pct_adv == RDiv(RInt(shares_to_trade), RInt(adv))
        market_impact_bps ==
            RMul(RMul(volatility, Sqrt(pct_adv)), RInt(BASIS_POINTS_PER_UNIT))
    IN  IF adv = 0
        THEN [pct_adv |-> Inf,
              days_to_trade |-> Inf,
              spread_cost_bps |-> spread_bps,
              market_impact_bps |-> Zero,
              total_cost_bps |-> spread_bps]
        ELSE IF REq(RMul(RInt(adv), participation_rate), Zero)
        THEN Raise("ZeroDivisionError")
        ELSE [pct_adv |-> pct_adv,
              days_to_trade |-> RDiv(RInt(shares_to_trade),
                                     RMul(RInt(adv), participation_rate)),
              spread_cost_bps |-> RDiv(spread_bps, RInt(2)),
              market_impact_bps |-> market_impact_bps,
              total_cost_bps |-> RAdd(RDiv(spread_bps, RInt(2)), market_impact_bps)]

-----------------------------------------------------------------------------
(* Inputs of the model *)

RetValues == {RInt(-1), Zero, One}
Series == UNION {[1..k -> RetValues] : k \in 0..MaxLen}
Confidences == {R(1, 4), R(1, 2), R(3, 4), R(9, 10), R(19, 20)}
PortfolioValues == {Zero, One, RInt(3)}
VarMethods == {"historical", "parametric", "monte_carlo", "bootstrap"}
NormalDraws == [1..SimDraws -> {RInt(-1), Zero, One}]
RiskFreeRates == {Zero, R(1, 20)}
BetaArgs == {None, Zero, One}

SymbolLists == {<<"AAPL">>, <<"AAPL", "MSFT">>}
MuValues == {RInt(-1), Zero, One}
\* positive semi-definite matrices: a diagonal of specific variances plus
\* the outer product of the loadings on one common factor
CovMatrices(n) ==
    {[i \in 1..n |-> [j \in 1..n |->
          RInt((IF i = j THEN d[i] ELSE 0) + b[i] * b[j])]] :
        d \in [1..n -> {0, 1}], b \in [1..n -> {0, 1}]}
Objectives ==
    {"MAX_SHARPE", "MIN_VARIANCE", "MAX_RETURN", "RISK_PARITY",
     "TARGET_RETURN", "TARGET_VOLATILITY"}
\* the weight bounds a caller sets (min_weight <= max_weight)
WeightLimits ==
    {[min_weight |-> lo, max_weight |-> hi, target_return |-> None,
      target_volatility |-> None, long_only |-> l] :
        lo \in {R(-1, 4), R(1, 4)}, hi \in {R(1, 2), R(3, 2)}, l \in BOOLEAN}
\* the constraints handed over with an objective; a target is set for the
\* objective that reads it
ConstraintsFor(objective) ==
    CASE objective = "TARGET_RETURN" ->
             {[c EXCEPT !.target_return = t] :
                 c \in WeightLimits, t \in {None, Zero, R(1, 2)}}
      [] objective = "TARGET_VOLATILITY" ->
             {[c EXCEPT !.target_volatility = t] :
                 c \in WeightLimits, t \in {None, Zero, One}}
      [] OTHER -> WeightLimits \cup {None}
\* the weight bounds handed to efficient_frontier
FrontierLimits == {c \in WeightLimits : c.long_only} \cup {None}
\* weight vectors handed to the risk decomposition
WeightVectors(n) == [1..n -> GridWeights(<<R(-1, 4), One>>)]

\* sector dicts: any subset of the sectors as keys
Sectors == {"Technology", "Energy"}
SectorWeightValues == {R(1, 2), One}
SectorReturnValues == {RInt(-1), R(1, 10)}
Dicts(keys, values) == UNION {[D -> values] : D \in SUBSET keys}
\* the orders in which a set can be iterated
Orders(S) == {f \in [1..Cardinality(S) -> S] : \A e \in S : \E k \in DOMAIN f : f[k] = e}

\* stress testing: the keys scenarios are added under (one of them seeded),
\* the keys looked up, and the scenarios a caller adds
AddKeys == {"GFC_2008", "MY_SCENARIO", "TAIL_RISK"}
LookupKeys == AddKeys \cup {"RATES_UP_200", "UNKNOWN"}
CustomScenarios ==
    {[name |-> "Oil embargo", scenario_type |-> CUSTOM,
      equity_shock |-> R(-1, 5), rates_shock_bps |-> RInt(100),
      credit_spread_shock_bps |-> Zero, volatility_shock |-> RInt(20),
      fx_shocks |-> <<>>, commodity_shocks |-> ("OIL" :> R(1, 2))],
     [name |-> "Soft landing", scenario_type |-> HYPOTHETICAL,
      equity_shock |-> R(1, 10), rates_shock_bps |-> RInt(-50),
      credit_spread_shock_bps |-> Zero, volatility_shock |-> Zero,
      fx_shocks |-> <<>>, commodity_shocks |-> <<>>]}
\* the add_scenario calls made: a custom scenario under a seeded key and
\* under a new key, a hypothetical one under another new key
AddCalls ==
    {c \in [key : AddKeys, scenario : CustomScenarios] :
        c.key = "TAIL_RISK" <=> c.scenario.scenario_type = HYPOTHETICAL}
ScenarioTypes == {HISTORICAL, HYPOTHETICAL, CUSTOM}
TypeFilters == ScenarioTypes \cup {None}
EquityPositions ==
    {None,
     [dict |-> <<[key |-> "AAPL",
                  value |-> [value |-> RInt(100000), beta |-> R(6, 5)]]>>]}

\* price series: positive prices, and the empty series
PriceValues == {One, RInt(2), RInt(3)}
PriceSeries == UNION {[1..k -> PriceValues] : k \in 0..MaxPrices}
\* the price series handed to calculate_calmar_ratio
CalmarPrices == {p \in PriceSeries : Len(p) <= 2}
SortinoTargets == {Zero, R(1, 2)}
\* benchmarks of the length of rets: constant ones, rets moved by a constant,
\* and rets reversed
BenchmarksFor(rets) ==
    {[i \in 1..Len(rets) |-> c] : c \in RetValues}
    \cup {[i \in 1..Len(rets) |-> RSub(rets[i], c)] : c \in {Zero, R(1, 2), R(-1, 2)}}
    \cup {[i \in 1..Len(rets) |-> rets[Len(rets) + 1 - i]]}
\* trades and net asset values of the transaction-cost calculation
TradeLists ==
    {<<>>,
     <<[symbol |-> "AAPL", shares |-> RInt(100), cost |-> R(1, 100)]>>,
     <<[symbol |-> "AAPL", shares |-> RInt(-100), cost |-> R(1, 100)],
       [symbol |-> "MSFT", shares |-> RInt(50), cost |-> R(1, 50)]>>}
NavValues == {Zero, RInt(1000), RInt(-1000)}
\* arguments of estimate_market_impact
ShareCounts == {0, 100, 400}
AdvValues == {0, 100}
SpreadValues == {RInt(10)}
VolatilityValues == {R(1, 50)}
ParticipationRates == {Zero, R(1, 10)}

\* the periods under analysis: sector weights and sector returns per period
PeriodWeightDicts ==
    {[Technology |-> One], [Energy |-> One],
     [Technology |-> R(1, 2), Energy |-> R(1, 2)]}
PeriodReturnDicts == {<<>>, [Technology |-> R(1, 10), Energy |-> RInt(-1)]}
WeightSeries == UNION {[1..k -> PeriodWeightDicts] : k \in 0..MaxPeriods}
ReturnSeriesFor(weights_series) ==
    UNION {[1..k -> PeriodReturnDicts] :
              k \in {Len(weights_series), Len(weights_series) - 1} \cap Nat}
\* the daily portfolio and benchmark returns of the period
PeriodReturnPairs ==
    {<<<<>>, <<>>>>,
     <<<<One, Zero>>, <<Zero, One, RInt(-1)>>>>,
     <<<<Zero, RInt(-1)>>, <<One, One>>>>}
\* factor_exposures and factor_returns
FactorArgs ==
    LET exposures == [dict |-> <<[key |-> "momentum", value |-> R(1, 2)],
                                 [key |-> "value", value |-> RInt(-1)]>>]
        factor_rets == [dict |-> <<[key |-> "momentum", value |-> <<One, Zero, One>>]>>]
    IN  {<<None, None>>, <<exposures, None>>, <<[dict |-> <<>>], factor_rets>>,
         <<exposures, factor_rets>>}
\* trades and total_nav
TradeArgs ==
    {<<None, Zero>>, <<[list |-> <<>>], RInt(1000)>>}
    \cup {<<[list |-> t], RInt(1000)>> : t \in {t \in TradeLists : Len(t) = 1}}
    \cup {<<[list |-> t], nav>> :
             t \in {t \in TradeLists : Len(t) = 2}, nav \in {Zero, RInt(-1000)}}

\* the exposures a scenario is run on; the fixed-income map and the commodity
\* map each use an identifier that an equity map uses too
ScenarioEquityPositions ==
    {None, [dict |-> <<>>],
     [dict |-> <<[key |-> "AAPL",
                  value |-> [value |-> RInt(100000), beta |-> R(6, 5)]]>>],
     [dict |-> <<[key |-> "AAPL",
                  value |-> [value |-> RInt(100000), beta |-> R(6, 5)]],
                 [key |-> "MSFT",
                  value |-> [value |-> RInt(80000), beta |-> R(11, 10)]],
                 [key |-> "GOLD",
                  value |-> [value |-> RInt(50000), beta |-> R(7, 5)]]>>]}
ScenarioFixedIncomePositions ==
    {None,
     [dict |-> <<[key |-> "BOND1",
                  value |-> [value |-> RInt(50000), duration |-> RInt(5),
                             convexity |-> R(1, 2)]],
                 [key |-> "BOND2",
                  value |-> [value |-> RInt(30000), duration |-> RInt(7),
                             convexity |-> R(4, 5)]]>>],
     [dict |-> <<[key |-> "AAPL",
                  value |-> [value |-> RInt(20000), duration |-> RInt(3),
                             convexity |-> Zero]]>>]}
FxExposures ==
    {None, [dict |-> <<>>],
     [dict |-> <<[key |-> "USD/EUR", value |-> RInt(100000)],
                 [key |-> "USD/JPY", value |-> RInt(50000)]>>]}
CommodityExposures ==
    {None,
     [dict |-> <<[key |-> "OIL", value |-> RInt(10000)],
                 [key |-> "GOLD", value |-> RInt(5000)]>>]}
\* arguments of the impact calculations called on their own; one bond has a
\* convexity that outweighs its duration at the larger shocks
EquityShocks == {R(-9, 20), R(-1, 5), Zero, R(1, 10)}
FixedIncomeBooks ==
    {p.dict : p \in ScenarioFixedIncomePositions \ {None}}
    \cup {<<>>,
          <<[key |-> "CONVEX",
             value |-> [value |-> RInt(1000), duration |-> One,
                        convexity |-> RInt(200)]]>>}
RateShocks == {RInt(-200), Zero, RInt(100), RInt(200)}
CreditShocks == {RInt(-100), Zero, RInt(50), RInt(500)}

-----------------------------------------------------------------------------
(* numpy's global random generator (np.random) *)

\* the number of states of the generator: a linear congruential generator
\* stands for the Mersenne Twister, a state determines every later draw
RandomModulus == 8

\* the state np.random.seed(seed) puts the generator in
SeedState(seed) == seed % RandomModulus

\* the state after one draw
AdvanceState(x) == (5 * x + 3) % RandomModulus

RECURSIVE StateAfter(_, _)
\* the state after k draws
StateAfter(x, k) == IF k = 0 THEN x ELSE StateAfter(AdvanceState(x), k - 1)

\* the standard normal draw the generator yields on reaching state x
NormalOf(x) == RInt((x % 3) - 1)

\* the next size standard normal draws from state x
DrawsFrom(x, size) == [i \in 1..size |-> NormalOf(StateAfter(x, i))]

\* the generator before any np.random.seed: seeded by the operating system
Unseeded == [seed |-> None, x |-> 0]

-----------------------------------------------------------------------------
(* StressTestEngine.monte_carlo_simulation (analytics/stress_testing.py) *)

\* np.std(s): the population standard deviation (ddof=0)
Std0(s) == Sqrt(RDiv(SumSqDev(s), RInt(Len(s))))

\* np.cov(rets) of an assets x time matrix
CovMatrix(rets) ==
    [a \in 1..Len(rets) |-> [b \in 1..Len(rets) |-> Cov1(rets[a], rets[b])]]

RECURSIVE CovFactor(_, _, _)
\* entry (i, j) of the lower-triangular factor A of cov, A * A^T = cov:
\* mean + A z has the covariance cov for standard normal z
CovFactor(cov, i, j) ==
    LET below == SumSeq([k \in 1..(j - 1) |->
                     RMul(CovFactor(cov, i, k), CovFactor(cov, j, k))])
    IN  IF j > i THEN Zero
        ELSE IF i = j THEN Sqrt(RSub(cov[i][i], below))
        ELSE LET d == CovFactor(cov, j, j)
             IN  IF d = Zero THEN Zero
                 ELSE RDiv(RSub(cov[i][j], below), d)

\* one draw of np.random.multivariate_normal(mean, cov) from the standard
\* normal draws z, one per asset, and the factor of cov
MultivariateNormal(mean, factor, z) ==
    [a \in 1..Len(mean) |->
        RAdd(mean[a],
             SumSeq([b \in 1..Len(mean) |-> RMul(factor[a][b], z[b])]))]

RECURSIVE CumProd(_)
\* np.cumprod(1 + r)[-1] of a non-empty row r
CumProd(r) ==
    IF Len(r) = 1 THEN RAdd(One, r[1])
    ELSE RMul(RAdd(One, Head(r)), CumProd(Tail(r)))

\* the final portfolio values of the simulated paths; z[s][t][a] is the
\* standard normal draw of simulation s, day t, asset a
FinalValues(rets, weights, initial_value, z) ==
    LET mean_returns == [a \in 1..Len(rets) |-> Mean(rets[a])]
        cov == CovMatrix(rets)
        factor == [a \in 1..Len(rets) |-> [b \in 1..Len(rets) |->
                      CovFactor(cov, a, b)]]
        portfolio_returns ==
            [s \in 1..Len(z) |-> [t \in 1..Len(z[s]) |->
                Dot(MultivariateNormal(mean_returns, factor, z[s][t]),
                    weights)]]
    IN  [s \in 1..Len(z) |-> RMul(initial_value, CumProd(portfolio_returns[s]))]

\* the statistics monte_carlo_simulation reports on the final values
SimulationStatistics(final_values, initial_value) ==
    LET p5 == Percentile(final_values, R(5, 100))
        n == Len(final_values)
    IN  [mean_final_value |-> Mean(final_values),
         std_final_value |-> Std0(final_values),
         min_final_value |-> MinOf(final_values),
         max_final_value |-> MaxOf(final_values),
         percentile_1 |-> Percentile(final_values, R(1, 100)),
         percentile_5 |-> p5,
         percentile_10 |-> Percentile(final_values, R(10, 100)),
         percentile_25 |-> Percentile(final_values, R(25, 100)),
         percentile_50 |-> Percentile(final_values, R(50, 100)),
         percentile_75 |-> Percentile(final_values, R(75, 100)),
         percentile_90 |-> Percentile(final_values, R(90, 100)),
         percentile_95 |-> Percentile(final_values, R(95, 100)),
         percentile_99 |-> Percentile(final_values, R(99, 100)),
         prob_loss |->
             Mean([s \in 1..n |->
                 IF RLt(final_values[s], initial_value) THEN One ELSE Zero]),
         expected_shortfall_5 |->
             Mean(MaskSelect(final_values,
                             [s \in 1..n |-> RLe(final_values[s], p5)]))]

\* monte_carlo_simulation of num_simulations = Len(z) paths over
\* time_horizon = Len(z[1]) days; np.cov of a single asset is 0-dimensional
\* and np.random.multivariate_normal rejects it
monte_carlo_simulation(rets, weights, initial_value, z) ==
    IF Len(rets) = 1 THEN Raise("ValueError")
    ELSE SimulationStatistics(FinalValues(rets, weights, initial_value, z),
                              initial_value)

NoCall == [op |-> "none"]

\* the state of the engines a specification does not exercise
SeriesIdle == returns = <<>> /\ benchmark_returns = <<>>
RiskIdle == risk_free_rate = R(1, 20) /\ riskOut = NoCall
AttrIdle == attr_risk_free_rate = R(1, 20) /\ attrOut = NoCall
OptIdle ==
    /\ symbols = <<>>
    /\ expected_returns = <<>>
    /\ cov_matrix = <<>>
    /\ opt_risk_free_rate = R(1, 20)
    /\ optOut = NoCall
    /\ liqOut = NoCall
\* the stress-testing module imported and no engine built
StressIdle ==
    /\ HISTORICAL_SCENARIOS = HistoricalSeed
    /\ HYPOTHETICAL_SCENARIOS = HypotheticalSeed
    /\ engines = <<>>
    /\ stressOut = NoCall
PeriodIdle == portfolio_weights_series = <<>> /\ sector_returns_series = <<>>
\* the global generator as the process start leaves it, nothing kept
RandomIdle == random_state = Unseeded /\ observed = None
\* a Portfolio just constructed with no positions
PortfolioIdle == portfolio_positions = <<>> /\ portfolioOut = NoCall

-----------------------------------------------------------------------------
(* The tail-risk specification: RiskAnalyzer on one return series *)

InitTail ==
    /\ returns \in Series \ {<<>>}
    /\ benchmark_returns = <<>>
    /\ risk_free_rate \in RiskFreeRates
    /\ riskOut = NoCall
    /\ AttrIdle
    /\ OptIdle
    /\ StressIdle
    /\ PeriodIdle
    /\ RandomIdle
    /\ PortfolioIdle

\* the draws are made only by the Monte-Carlo method; here they are any the
\* generator can yield, its state is followed in the random-source
\* specification
DrawsFor(m) == IF m = "monte_carlo" THEN NormalDraws ELSE {<<>>}

CalculateVar ==
    /\ riskOut = NoCall
    /\ \E c \in Confidences, m \in VarMethods, pv \in PortfolioValues :
        \E z \in DrawsFor(m) :
            riskOut' = [op |-> "calculate_var", confidence_level |-> c,
                        method |-> m, portfolio_value |-> pv, draws |-> z,
                        result |-> calculate_var(returns, c, m, pv, z)]
    /\ UNCHANGED <<seriesVars, risk_free_rate, attrVars, optVars,
                 liqVars, stressVars, periodVars, randomVars,
                 portfolioVars>>

CalculateCvar ==
    /\ riskOut = NoCall
    /\ \E c \in Confidences, pv \in PortfolioValues :
        riskOut' = [op |-> "calculate_cvar", confidence_level |-> c,
                    portfolio_value |-> pv,
                    result |-> calculate_cvar(returns, c, pv)]
    /\ UNCHANGED <<seriesVars, risk_free_rate, attrVars, optVars,
                 liqVars, stressVars, periodVars, randomVars,
                 portfolioVars>>

\* the caller takes the result; the analyzer is ready for the next call
RiskReturn ==
    /\ riskOut # NoCall
    /\ riskOut' = NoCall
    /\ UNCHANGED <<seriesVars, risk_free_rate, attrVars, optVars,
                 liqVars, stressVars, periodVars, randomVars,
                 portfolioVars>>

NextTail == CalculateVar \/ CalculateCvar \/ RiskReturn

SpecTail == InitTail /\ [][NextTail]_vars

(* C1: for every non-empty sample, confidence level and positive portfolio
   value, calculate_cvar is at least the historical calculate_var, and the
   tail calculate_cvar averages is never empty. *)
C1_CvarAtLeastVar ==
    (riskOut.op = "calculate_cvar" /\ RGt(riskOut.portfolio_value, Zero)) =>
        /\ RGe(riskOut.result,
               calculate_var(returns, riskOut.confidence_level, "historical",
                             riskOut.portfolio_value, <<>>))
        /\ TailReturns(returns,
               Percentile(returns, RSub(One, riskOut.confidence_level))) # <<>>

\* a call of calculate_cvar whose result is strictly above the VaR
C1_Witness ==
    /\ riskOut.op = "calculate_cvar"
    /\ RGt(riskOut.portfolio_value, Zero)
    /\ Len(returns) > 1
    /\ RGt(riskOut.result,
           calculate_var(returns, riskOut.confidence_level, "historical",
                         riskOut.portfolio_value, <<>>))

(* C10: calculate_var never returns a negative number, whatever the sample,
   the confidence level, the method and the portfolio value >= 0, and the
   result is portfolio_value times the result for portfolio_value 1. *)
C10_VarNonNegative ==
    (riskOut.op = "calculate_var" /\ ~IsRaise(riskOut.result)) =>
        /\ ~RLt(riskOut.result, Zero)
        /\ riskOut.result =
               RMul(calculate_var(returns, riskOut.confidence_level,
                                  riskOut.method, One, riskOut.draws),
                    riskOut.portfolio_value)

-----------------------------------------------------------------------------
(* The benchmark-relative specification: the two-series methods of
   RiskAnalyzer and AttributionAnalyzer on one pair of series *)

InitBenchmark ==
    /\ returns \in Series
    /\ benchmark_returns \in Series
    /\ risk_free_rate \in RiskFreeRates
    /\ riskOut = NoCall
    /\ attr_risk_free_rate = risk_free_rate  \* both analyzers get one rate
    /\ attrOut = NoCall
    /\ OptIdle
    /\ StressIdle
    /\ PeriodIdle
    /\ RandomIdle
    /\ PortfolioIdle

CalculateBeta ==
    /\ riskOut = NoCall
    /\ riskOut' = [op |-> "calculate_beta",
                   result |-> calculate_beta(returns, benchmark_returns)]
    /\ UNCHANGED <<seriesVars, risk_free_rate, attrVars, optVars,
                 liqVars, stressVars, periodVars, randomVars,
                 portfolioVars>>

CalculateAlpha ==
    /\ riskOut = NoCall
    /\ \E b \in BetaArgs :
        riskOut' = [op |-> "calculate_alpha", beta |-> b,
                    result |-> calculate_alpha(returns, benchmark_returns,
                                               b, risk_free_rate)]
    /\ UNCHANGED <<seriesVars, risk_free_rate, attrVars, optVars,
                 liqVars, stressVars, periodVars, randomVars,
                 portfolioVars>>

CalculateTrackingError ==
    /\ riskOut = NoCall
    /\ riskOut' = [op |-> "calculate_tracking_error",
                   result |-> calculate_tracking_error(returns,
                                                       benchmark_returns)]
    /\ UNCHANGED <<seriesVars, risk_free_rate, attrVars, optVars,
                 liqVars, stressVars, periodVars, randomVars,
                 portfolioVars>>

CalculateInformationRatio ==
    /\ riskOut = NoCall
    /\ riskOut' = [op |-> "calculate_information_ratio",
                   result |-> calculate_information_ratio(returns,
                                                          benchmark_returns)]
    /\ UNCHANGED <<seriesVars, risk_free_rate, attrVars, optVars,
                 liqVars, stressVars, periodVars, randomVars,
                 portfolioVars>>

CalculateCaptureRatios ==
    /\ riskOut = NoCall
    /\ riskOut' = [op |-> "calculate_capture_ratios",
                   result |-> calculate_capture_ratios(returns,
                                                       benchmark_returns)]
    /\ UNCHANGED <<seriesVars, risk_free_rate, attrVars, optVars,
                 liqVars, stressVars, periodVars, randomVars,
                 portfolioVars>>

CalculateAlphaBetaDecomposition ==
    /\ attrOut = NoCall
    /\ attrOut' = [op |-> "calculate_alpha_beta_decomposition",
                   result |-> calculate_alpha_beta_decomposition(
                                  returns, benchmark_returns,
                                  attr_risk_free_rate)]
    /\ UNCHANGED <<seriesVars, riskVars, attr_risk_free_rate, optVars,
                 liqVars, stressVars, periodVars, randomVars,
                 portfolioVars>>

\* the caller takes the result; the analyzer is ready for the next call
AttrReturn ==
    /\ attrOut # NoCall
    /\ attrOut' = NoCall
    /\ UNCHANGED <<seriesVars, riskVars, attr_risk_free_rate, optVars,
                 liqVars, stressVars, periodVars, randomVars,
                 portfolioVars>>

NextBenchmark ==
    \/ CalculateBeta
    \/ CalculateAlpha
    \/ CalculateTrackingError
    \/ CalculateInformationRatio
    \/ CalculateCaptureRatios
    \/ RiskReturn
    \/ CalculateAlphaBetaDecomposition
    \/ AttrReturn

SpecBenchmark == InitBenchmark /\ [][NextBenchmark]_vars

\* the length both series are cut to
MinLen == Min(Len(returns), Len(benchmark_returns))

(* C8: for series of different lengths, calculate_beta, calculate_tracking_error,
   calculate_information_ratio and calculate_capture_ratios return what they
   return for the two series cut to the shorter length, and raise nothing. *)
C8_TruncationSymmetry ==
    LET r == Prefix(returns, MinLen)
        b == Prefix(benchmark_returns, MinLen)
    IN  Len(returns) # Len(benchmark_returns) =>
            /\ riskOut.op = "calculate_beta" =>
                   /\ ~IsRaise(riskOut.result)
                   /\ riskOut.result = calculate_beta(r, b)
            /\ riskOut.op = "calculate_tracking_error" =>
                   /\ ~IsRaise(riskOut.result)
                   /\ riskOut.result = calculate_tracking_error(r, b)
            /\ riskOut.op = "calculate_information_ratio" =>
                   /\ ~IsRaise(riskOut.result)
                   /\ riskOut.result = calculate_information_ratio(r, b)
            /\ riskOut.op = "calculate_capture_ratios" =>
                   /\ ~IsRaise(riskOut.result)
                   /\ riskOut.result = calculate_capture_ratios(r, b)

\* a beta computed from a longer portfolio series, which differs from the
\* beta of the two series as given when nothing is cut
C8_Witness ==
    /\ Len(returns) > Len(benchmark_returns)
    /\ Len(benchmark_returns) >= 2
    /\ riskOut.op = "calculate_beta"
    /\ IsFinite(riskOut.result)
    /\ riskOut.result # Zero

(* C9: with one risk-free rate, calculate_alpha_beta_decomposition returns the
   beta of RiskAnalyzer.calculate_beta and the alpha of
   RiskAnalyzer.calculate_alpha for the same two series, of equal or of
   different lengths, and beta_contribution = beta * mean(benchmark) * 252. *)
C9_SameAlphaBeta ==
    (attrOut.op = "calculate_alpha_beta_decomposition"
        /\ ~IsRaise(attrOut.result)
        /\ risk_free_rate = attr_risk_free_rate) =>
        /\ riskOut.op = "calculate_beta" =>
               attrOut.result.beta = riskOut.result
        /\ (riskOut.op = "calculate_alpha" /\ riskOut.beta = None) =>
               attrOut.result.alpha = riskOut.result
        /\ attrOut.result.beta_contribution =
               RMul(RMul(attrOut.result.beta,
                         Mean(Prefix(benchmark_returns, MinLen))),
                    RInt(TRADING_DAYS_PER_YEAR))

-----------------------------------------------------------------------------
(* The optimizer specification: PortfolioOptimizer on one set of assets *)

InitOptimizer ==
    /\ SeriesIdle
    /\ RiskIdle
    /\ AttrIdle
    /\ symbols \in SymbolLists
    /\ expected_returns \in [1..Len(symbols) -> MuValues]
    /\ cov_matrix \in CovMatrices(Len(symbols))
    /\ opt_risk_free_rate = R(1, 20)
    /\ optOut = NoCall
    /\ liqOut = NoCall
    /\ StressIdle
    /\ PeriodIdle
    /\ RandomIdle
    /\ PortfolioIdle

optInputs == <<symbols, expected_returns, cov_matrix, opt_risk_free_rate>>

\* the solver is not run
NoSolve == [success |-> FALSE, x |-> <<>>, message |-> "", nit |-> 0]

MeanVarianceOptimization ==
    /\ optOut = NoCall
    /\ \E objective \in Objectives :
        \E constraints \in ConstraintsFor(objective) :
            \E solved \in IF MvObjective(objective) = "ValueError" THEN {NoSolve}
                           ELSE Minimize(MvProblem(symbols, expected_returns,
                                                   cov_matrix, objective,
                                                   constraints,
                                                   opt_risk_free_rate)) :
                optOut' = [op |-> "mean_variance_optimization",
                           objective |-> objective,
                           constraints |-> constraints,
                           problem |-> IF solved = NoSolve THEN None
                                       ELSE MvProblem(symbols, expected_returns,
                                                      cov_matrix, objective,
                                                      constraints,
                                                      opt_risk_free_rate),
                           solver |-> solved,
                           result |-> mean_variance_optimization(
                               symbols, expected_returns, cov_matrix,
                               objective, constraints, opt_risk_free_rate,
                               solved)]
    /\ UNCHANGED <<seriesVars, riskVars, attrVars, optInputs,
                 liqVars, stressVars, periodVars, randomVars,
                 portfolioVars>>

RiskParityOptimization ==
    /\ optOut = NoCall
    /\ \E solved \in Minimize(RpProblem(symbols, cov_matrix, None)) :
        optOut' = [op |-> "risk_parity_optimization",
                   problem |-> RpProblem(symbols, cov_matrix, None),
                   solver |-> solved,
                   result |-> risk_parity_optimization(
                                  symbols, cov_matrix, None, solved)]
    /\ UNCHANGED <<seriesVars, riskVars, attrVars, optInputs,
                 liqVars, stressVars, periodVars, randomVars,
                 portfolioVars>>

EfficientFrontier ==
    /\ optOut = NoCall
    /\ \E n_points \in 1..MaxPoints, constraints \in FrontierLimits :
        \E run \in FrontierRuns(symbols, expected_returns, cov_matrix,
                                n_points, constraints, opt_risk_free_rate) :
            optOut' = [op |-> "efficient_frontier",
                       n_points |-> n_points,
                       constraints |-> constraints,
                       solver |-> run,
                       result |-> efficient_frontier(
                           symbols, expected_returns, cov_matrix, n_points,
                           constraints, opt_risk_free_rate, run)]
    /\ UNCHANGED <<seriesVars, riskVars, attrVars, optInputs,
                 liqVars, stressVars, periodVars, randomVars,
                 portfolioVars>>

CalculateRiskContribution ==
    /\ optOut = NoCall
    /\ \E weights \in WeightVectors(Len(symbols)) :
        optOut' = [op |-> "calculate_risk_contribution",
                   weights |-> weights,
                   result |-> calculate_risk_contribution(weights,
                                                          cov_matrix)]
    /\ UNCHANGED <<seriesVars, riskVars, attrVars, optInputs,
                 liqVars, stressVars, periodVars, randomVars,
                 portfolioVars>>

\* the caller takes the result; the optimizer is ready for the next call
OptReturn ==
    /\ optOut # NoCall
    /\ optOut' = NoCall
    /\ UNCHANGED <<seriesVars, riskVars, attrVars, optInputs,
                 liqVars, stressVars, periodVars, randomVars,
                 portfolioVars>>

NextOptimizer ==
    \/ MeanVarianceOptimization
    \/ RiskParityOptimization
    \/ CalculateRiskContribution
    \/ OptReturn

SpecOptimizer == InitOptimizer /\ [][NextOptimizer]_vars

NextFrontier == EfficientFrontier \/ OptReturn

SpecFrontier == InitOptimizer /\ [][NextFrontier]_vars

\* the sum of the values of a dict keyed by the symbols
SumWeights(w) == SumSeq([i \in 1..Len(symbols) |-> w[symbols[i]]])

SymbolSet == {symbols[i] : i \in 1..Len(symbols)}

\* a call of an optimization method that reached the solver
Solved(op) == optOut.op = op /\ optOut.problem # None

(* C2: a successful mean_variance_optimization under long-only constraints
   returns exactly one weight per symbol, weights that sum to 1 within 0.01,
   each within [max(0, min_weight), max_weight] by 0.01. *)
C2_LongOnlyWeights ==
    (Solved("mean_variance_optimization") /\ optOut.result.success) =>
        LET cons == IF optOut.constraints = None THEN DefaultConstraints
                    ELSE optOut.constraints
            w == optOut.result.weights
            tol == R(1, 100)
        IN  cons.long_only =>
                /\ DOMAIN w = SymbolSet
                /\ RLe(RAbs(RSub(SumWeights(w), One)), tol)
                /\ \A a \in SymbolSet :
                       /\ RGe(w[a], RNeg(tol))
                       /\ RGe(w[a], RSub(cons.min_weight, tol))
                       /\ RLe(w[a], RAdd(cons.max_weight, tol))

\* a successful long-only call whose min_weight is negative and where an
\* asset ends at weight 0
C2_Witness ==
    /\ Solved("mean_variance_optimization")
    /\ optOut.result.success
    /\ optOut.constraints # None
    /\ optOut.constraints.long_only
    /\ RLt(optOut.constraints.min_weight, Zero)
    /\ Len(symbols) = 2
    /\ \E a \in SymbolSet : optOut.result.weights[a] = Zero

(* C3: when the solver reports non-convergence, mean_variance_optimization and
   risk_parity_optimization raise nothing and return success=False, the
   solver's message, every symbol at weight 1/N (summing to 1) and expected
   return, volatility and Sharpe 0; the solver is always started from the
   equal-weight vector. *)
C3_FailureReturnsEqualWeights ==
    (Solved("mean_variance_optimization") \/ Solved("risk_parity_optimization")) =>
        /\ optOut.problem.x0 = [i \in 1..Len(symbols) |-> R(1, Len(symbols))]
        /\ ~optOut.solver.success =>
               /\ ~IsRaise(optOut.result)
               /\ optOut.result.success = FALSE
               /\ optOut.result.message = optOut.solver.message
               /\ DOMAIN optOut.result.weights = SymbolSet
               /\ \A a \in SymbolSet :
                      optOut.result.weights[a] = R(1, Len(symbols))
               /\ SumWeights(optOut.result.weights) = One
               /\ optOut.result.expected_return = Zero
               /\ optOut.result.expected_volatility = Zero
               /\ optOut.result.sharpe_ratio = Zero

\* a failed solve that stopped away from the start vector
C3_Witness ==
    /\ Solved("mean_variance_optimization")
    /\ ~optOut.solver.success
    /\ optOut.solver.x # optOut.problem.x0
    /\ optOut.solver.message = "Iteration limit reached"
    /\ ~optOut.result.success

(* C4: the list efficient_frontier returns is ordered by non-decreasing
   expected_return. *)
C4_FrontierNonDecreasing ==
    optOut.op = "efficient_frontier" =>
        \A i \in 1..(Len(optOut.result) - 1) :
            RLe(optOut.result[i].expected_return,
                optOut.result[i + 1].expected_return)

(* C5: efficient_frontier returns at most n_points entries and every entry
   has success=True, in the single-point branch and in the loop. *)
C5_FrontierOnlySuccessful ==
    optOut.op = "efficient_frontier" =>
        /\ Len(optOut.result) <= optOut.n_points
        /\ \A i \in 1..Len(optOut.result) : optOut.result[i].success

(* C6: calculate_risk_contribution returns a_i = w_i * marginal_i and the
   percentages a_i / sum(a), which sum to 1 when sum(a) is not 0; the
   marginal contributions are all 0 when the volatility is 0 and the
   percentages all 0 when sum(a) is 0, and nothing is divided by zero. *)
C6_RiskContribution ==
    optOut.op = "calculate_risk_contribution" =>
        LET w == optOut.weights
            n == Len(w)
            mcr == calculate_marginal_contribution_to_risk(w, cov_matrix)
            a == optOut.result.absolute_contribution
            pct == optOut.result.percentage_contribution
            total == SumSeq(a)
        IN  /\ Len(a) = n /\ Len(pct) = n
            /\ \A i \in 1..n : IsFinite(mcr[i]) /\ IsFinite(a[i]) /\ IsFinite(pct[i])
            /\ \A i \in 1..n : a[i] = RMul(w[i], mcr[i])
            /\ Quad(w, cov_matrix) = Zero => \A i \in 1..n : mcr[i] = Zero
            /\ total = Zero => \A i \in 1..n : pct[i] = Zero
            /\ total # Zero =>
                   /\ \A i \in 1..n : pct[i] = RDiv(a[i], total)
                   /\ SumSeq(pct) = One

\* a decomposition with a short position and unequal non-zero shares
C6_Witness ==
    /\ optOut.op = "calculate_risk_contribution"
    /\ Len(optOut.weights) = 2
    /\ RLt(optOut.weights[1], Zero)
    /\ SumSeq(optOut.result.absolute_contribution) # Zero
    /\ optOut.result.percentage_contribution[1] # Zero
    /\ optOut.result.percentage_contribution[1]
           # optOut.result.percentage_contribution[2]

-----------------------------------------------------------------------------
(* The attribution specification: AttributionAnalyzer on sector dicts *)

InitAttribution ==
    /\ SeriesIdle
    /\ RiskIdle
    /\ attr_risk_free_rate \in RiskFreeRates
    /\ attrOut = NoCall
    /\ OptIdle
    /\ StressIdle
    /\ PeriodIdle
    /\ RandomIdle
    /\ PortfolioIdle

CalculateBrinsonFachlerAttribution ==
    /\ attrOut = NoCall
    /\ \E portfolio_weights \in Dicts(Sectors, SectorWeightValues),
          benchmark_weights \in Dicts(Sectors, SectorWeightValues),
          portfolio_returns \in Dicts(Sectors, SectorReturnValues),
          benchmark_rets \in Dicts(Sectors, SectorReturnValues) :
        \E order \in Orders(DOMAIN portfolio_weights \cup DOMAIN benchmark_weights) :
            attrOut' = [op |-> "calculate_brinson_fachler_attribution",
                        portfolio_weights |-> portfolio_weights,
                        benchmark_weights |-> benchmark_weights,
                        portfolio_returns |-> portfolio_returns,
                        benchmark_returns |-> benchmark_rets,
                        result |-> calculate_brinson_fachler_attribution(
                                       portfolio_weights, benchmark_weights,
                                       portfolio_returns, benchmark_rets, order)]
    /\ UNCHANGED <<seriesVars, riskVars, attr_risk_free_rate, optVars,
                 liqVars, stressVars, periodVars, randomVars,
                 portfolioVars>>

NextAttribution == CalculateBrinsonFachlerAttribution \/ AttrReturn

SpecAttribution == InitAttribution /\ [][NextAttribution]_vars

RECURSIVE SumOver(_, _)
\* the sum of the products weight * return over a set of sectors
SumOver(S, o) ==
    IF S = {} THEN Zero
    ELSE LET e == CHOOSE x \in S : TRUE
         IN  RAdd(RMul(Get(o.benchmark_weights, e, Zero),
                       Get(o.benchmark_returns, e, Zero)),
                  SumOver(S \ {e}, o))

(* C7: calculate_brinson_fachler_attribution returns exactly one
   SectorAttribution for each sector in the union of the key sets of the two
   weight dicts, a weight or return missing from a dict being 0, with
   allocation = (pw - bw) * (br - total benchmark return),
   selection = bw * (pr - br), interaction = (pw - bw) * (pr - br) and
   total_effect = allocation + selection + interaction. *)
C7_BrinsonFachlerPerSector ==
    attrOut.op = "calculate_brinson_fachler_attribution" =>
        LET o == attrOut
            all_sectors == DOMAIN o.portfolio_weights \cup DOMAIN o.benchmark_weights
            total_benchmark_return == SumOver(all_sectors, o)
        IN  /\ Len(o.result) = Cardinality(all_sectors)
            /\ \A sector \in all_sectors :
                   \E k \in 1..Len(o.result) : o.result[k].sector = sector
            /\ \A k \in 1..Len(o.result) :
                   LET a == o.result[k]
                       pw == IF a.sector \in DOMAIN o.portfolio_weights
                             THEN o.portfolio_weights[a.sector] ELSE Zero
                       bw == IF a.sector \in DOMAIN o.benchmark_weights
                             THEN o.benchmark_weights[a.sector] ELSE Zero
                       pr == IF a.sector \in DOMAIN o.portfolio_returns
                             THEN o.portfolio_returns[a.sector] ELSE Zero
                       br == IF a.sector \in DOMAIN o.benchmark_returns
                             THEN o.benchmark_returns[a.sector] ELSE Zero
                   IN  /\ a.sector \in all_sectors
                       /\ a.portfolio_weight = pw /\ a.benchmark_weight = bw
                       /\ a.portfolio_return = pr /\ a.benchmark_return = br
                       /\ a.allocation_effect =
                              RMul(RSub(pw, bw), RSub(br, total_benchmark_return))
                       /\ a.selection_effect = RMul(bw, RSub(pr, br))
                       /\ a.interaction_effect = RMul(RSub(pw, bw), RSub(pr, br))
                       /\ a.total_effect =
                              RAdd(RAdd(a.allocation_effect, a.selection_effect),
                                   a.interaction_effect)

\* a sector held only by the benchmark, another one only by the portfolio and
\* without a portfolio return, and a non-zero total benchmark return
C7_Witness ==
    /\ attrOut.op = "calculate_brinson_fachler_attribution"
    /\ DOMAIN attrOut.portfolio_weights = {"Technology"}
    /\ DOMAIN attrOut.benchmark_weights = {"Energy"}
    /\ DOMAIN attrOut.portfolio_returns = {}
    /\ DOMAIN attrOut.benchmark_returns = {"Energy"}
    /\ Len(attrOut.result) = 2
    /\ \E k \in 1..2 : /\ attrOut.result[k].sector = "Technology"
                        /\ attrOut.result[k].allocation_effect # Zero

-----------------------------------------------------------------------------
(* The selector specification: the two methods that dispatch on a selector
   argument, each on its own engine *)

InitSelectors == InitTail \/ InitOptimizer

NextSelectors ==
    \/ returns # <<>> /\ CalculateVar
    \/ RiskReturn
    \/ symbols # <<>> /\ MeanVarianceOptimization
    \/ OptReturn

SpecSelectors == InitSelectors /\ [][NextSelectors]_vars

SupportedMethods == {"historical", "parametric", "monte_carlo"}

SupportedObjectives ==
    {"MAX_SHARPE", "MIN_VARIANCE", "MAX_RETURN", "TARGET_RETURN",
     "TARGET_VOLATILITY"}

(* C11: an unsupported selector is never silently defaulted: calculate_var
   with a method other than historical, parametric or monte_carlo, and
   mean_variance_optimization with an objective other than MAX_SHARPE,
   MIN_VARIANCE, MAX_RETURN, TARGET_RETURN or TARGET_VOLATILITY, raise
   ValueError and return no result, and the solver is not run. *)
C11_UnsupportedSelectorRaises ==
    /\ (riskOut.op = "calculate_var" /\ riskOut.method \notin SupportedMethods) =>
           riskOut.result = Raise("ValueError")
    /\ (optOut.op = "mean_variance_optimization"
           /\ optOut.objective \notin SupportedObjectives) =>
           /\ optOut.result = Raise("ValueError")
           /\ optOut.solver = NoSolve
           /\ optOut.problem = None

\* the enum member RISK_PARITY handed to mean_variance_optimization together
\* with explicit constraints
C11_Witness ==
    /\ optOut.op = "mean_variance_optimization"
    /\ optOut.objective = "RISK_PARITY"
    /\ optOut.constraints # None
    /\ IsRaise(optOut.result)
    /\ Len(symbols) = 2

-----------------------------------------------------------------------------
(* The stress-testing specification: the engines built in one process *)

InitStress ==
    /\ SeriesIdle
    /\ RiskIdle
    /\ AttrIdle
    /\ OptIdle
    /\ HISTORICAL_SCENARIOS = HistoricalSeed
    /\ HYPOTHETICAL_SCENARIOS = HypotheticalSeed
    /\ engines = <<StressTestEngineInit(HistoricalSeed, HypotheticalSeed)>>
    /\ stressOut = NoCall
    /\ PeriodIdle
    /\ RandomIdle
    /\ PortfolioIdle

otherVarsButRandom ==
    <<seriesVars, riskVars, attrVars, optVars, liqVars, periodVars,
      portfolioVars>>
otherVars == <<otherVarsButRandom, randomVars>>

\* StressTestEngine(): one more engine
NewEngine ==
    /\ stressOut = NoCall
    /\ Len(engines) < MaxEngines
    /\ engines' = Append(engines, StressTestEngineInit(HISTORICAL_SCENARIOS,
                                                       HYPOTHETICAL_SCENARIOS))
    /\ stressOut' = [op |-> "__init__", engine |-> Len(engines) + 1]
    /\ UNCHANGED <<otherVars, moduleVars>>

\* faulty variant of EnginesAfterAdd: the scenarios dict is shared by the engines
EnginesAfterAddShared(engs, e, key, scenario) ==
    [i \in 1..Len(engs) |-> add_scenario(engs[i], key, scenario)]

\* self.scenarios[key] = scenario on engine e
EnginesAfterAdd(engs, e, key, scenario) ==
    [engs EXCEPT ![e] = add_scenario(@, key, scenario)]

AddScenario ==
    /\ stressOut = NoCall
    /\ \E e \in 1..Len(engines), c \in AddCalls :
        /\ engines' = EnginesAfterAdd(engines, e, c.key, c.scenario)
        /\ stressOut' = [op |-> "add_scenario", engine |-> e, key |-> c.key,
                         scenario |-> c.scenario]
    /\ UNCHANGED <<otherVars, moduleVars>>

GetScenario ==
    /\ stressOut = NoCall
    /\ \E e \in 1..Len(engines), key \in LookupKeys :
        stressOut' = [op |-> "get_scenario", engine |-> e, key |-> key,
                      result |-> get_scenario(engines[e], key)]
    /\ UNCHANGED <<otherVars, moduleVars, engines>>

ListScenarios ==
    /\ stressOut = NoCall
    /\ \E e \in 1..Len(engines), scenario_type \in TypeFilters :
        stressOut' = [op |-> "list_scenarios", engine |-> e,
                      scenario_type |-> scenario_type,
                      result |-> list_scenarios(engines[e], scenario_type)]
    /\ UNCHANGED <<otherVars, moduleVars, engines>>

RunAllScenarios ==
    /\ stressOut = NoCall
    /\ \E e \in 1..Len(engines), scenario_type \in TypeFilters,
          equity_positions \in EquityPositions :
        stressOut' = [op |-> "run_all_scenarios", engine |-> e,
                      scenario_type |-> scenario_type,
                      equity_positions |-> equity_positions,
                      result |-> run_all_scenarios(engines[e], equity_positions,
                                     None, None, None, scenario_type)]
    /\ UNCHANGED <<otherVars, moduleVars, engines>>

StressReturn ==
    /\ stressOut # NoCall
    /\ stressOut' = NoCall
    /\ UNCHANGED <<otherVars, moduleVars, engines>>

NextStress ==
    \/ NewEngine
    \/ AddScenario
    \/ GetScenario
    \/ ListScenarios
    \/ RunAllScenarios
    \/ StressReturn

SpecStress == InitStress /\ [][NextStress]_vars

\* key is bound to scenario in the catalog
Bound(scenarios, key, scenario) ==
    \E i \in 1..Len(scenarios) :
        scenarios[i].key = key /\ scenarios[i].value = scenario

HasKey(scenarios, key) == \E i \in 1..Len(scenarios) : scenarios[i].key = key

(* C17: after add_scenario(k, s) on an engine, k is bound to s there, so
   get_scenario(k) returns s and list_scenarios() contains k; every step that
   is not an add_scenario with key k on that engine leaves the binding of k as
   it is; get_scenario returns the binding, None for a key that is not in
   the catalog, and leaves the catalog unchanged. *)
C17_AddThenGet ==
    [][/\ stressOut'.op = "add_scenario" =>
              LET e == stressOut'.engine
                  k == stressOut'.key
              IN  /\ Bound(engines'[e], k, stressOut'.scenario)
                  /\ get_scenario(engines'[e], k) = stressOut'.scenario
                  /\ \E i \in 1..Len(engines'[e]) :
                         list_scenarios(engines'[e], None)[i] = k
       /\ \A e \in 1..Len(engines), k \in LookupKeys :
              ~(stressOut'.op = "add_scenario" /\ stressOut'.engine = e
                    /\ stressOut'.key = k) =>
                  \A sc \in CustomScenarios \cup {get_scenario(engines[e], k)} :
                      Bound(engines'[e], k, sc) <=> Bound(engines[e], k, sc)
       /\ stressOut'.op = "get_scenario" =>
              LET e == stressOut'.engine
                  k == stressOut'.key
              IN  /\ engines' = engines
                  /\ HasKey(engines[e], k) => Bound(engines[e], k, stressOut'.result)
                  /\ ~HasKey(engines[e], k) => stressOut'.result = None
      ]_vars

\* a scenario added under a seeded key is what get_scenario returns in a later call
C17_Witness ==
    /\ stressOut.op = "get_scenario"
    /\ stressOut.key = "GFC_2008"
    /\ stressOut.result \in CustomScenarios
    /\ HasKey(engines[stressOut.engine], "TAIL_RISK")
    /\ HasKey(engines[stressOut.engine], "MY_SCENARIO")

(* C18: the catalog is append-only: no step removes a key from an engine's
   catalog or replaces the scenario bound to a key that is already there. *)
C18_AppendOnly ==
    [][\A e \in 1..Len(engines) :
          /\ Len(engines'[e]) >= Len(engines[e])
          /\ \A i \in 1..Len(engines[e]) : engines'[e][i] = engines[e][i]
      ]_vars

(* C19: add_scenario on one engine changes the catalog of that engine only:
   the catalogs of the other engines and the module-level dicts
   HISTORICAL_SCENARIOS and HYPOTHETICAL_SCENARIOS stay as they are, and an
   engine built afterwards holds exactly the seeded scenarios. *)
C19_EnginesIndependent ==
    [][/\ HISTORICAL_SCENARIOS' = HistoricalSeed
       /\ HYPOTHETICAL_SCENARIOS' = HypotheticalSeed
       /\ stressOut'.op = "add_scenario" =>
              /\ Len(engines') = Len(engines)
              /\ \A j \in 1..Len(engines) :
                     j # stressOut'.engine => engines'[j] = engines[j]
       /\ stressOut'.op = "__init__" =>
              /\ Len(engines') = Len(engines) + 1
              /\ \A j \in 1..Len(engines) : engines'[j] = engines[j]
              /\ engines'[Len(engines')] = HistoricalSeed \o HypotheticalSeed
      ]_vars

\* an engine built after scenarios were added to another one
C19_Witness ==
    /\ Len(engines) = 2
    /\ HasKey(engines[1], "MY_SCENARIO")
    /\ Bound(engines[1], "GFC_2008", get_scenario(engines[1], "MY_SCENARIO"))
    /\ engines[2] = HistoricalSeed \o HypotheticalSeed
    /\ stressOut.op = "__init__"

SeqSet(q) == {q[i] : i \in 1..Len(q)}

\* the items of the catalog whose scenario passes the filter, in catalog order
OfType(scenarios, scenario_type) ==
    SelectSeq(scenarios,
              LAMBDA it : \/ scenario_type = None
                          \/ it.value.scenario_type = scenario_type)

\* the lists of the three types partition the keys of the catalog
TypesPartition(scenarios, fresh) ==
    LET all == list_scenarios(scenarios, None)
        h == list_scenarios(scenarios, HISTORICAL)
        y == list_scenarios(scenarios, HYPOTHETICAL)
        c == list_scenarios(scenarios, CUSTOM)
    IN  /\ SeqSet(h) \cap SeqSet(y) = {}
        /\ SeqSet(h) \cap SeqSet(c) = {}
        /\ SeqSet(y) \cap SeqSet(c) = {}
        /\ SeqSet(h) \cup SeqSet(y) \cup SeqSet(c) = SeqSet(all)
        /\ Len(all) = Len(h) + Len(y) + Len(c)
        /\ fresh => Len(all) = Len(h) + Len(y)

\* what C20 says of the state after a call: the partition is stated of every
\* catalog where it comes into being, after __init__ and after add_scenario
C20_State ==
    /\ stressOut.op \in {"__init__", "add_scenario"} =>
           TypesPartition(engines[stressOut.engine], stressOut.op = "__init__")
    /\ stressOut.op = "list_scenarios" =>
           LET items == OfType(engines[stressOut.engine], stressOut.scenario_type)
           IN  stressOut.result = [i \in 1..Len(items) |-> items[i].key]
    /\ stressOut.op = "run_all_scenarios" =>
           LET items == OfType(engines[stressOut.engine], stressOut.scenario_type)
           IN  /\ list_scenarios(engines[stressOut.engine], stressOut.scenario_type)
                      = [i \in 1..Len(items) |-> items[i].key]
               /\ Len(stressOut.result) = Len(items)
               /\ \A i \in 1..Len(items) :
                      stressOut.result[i].scenario = items[i].value

(* C20: list_scenarios(t) returns exactly the keys whose scenario has type t
   (all keys without a filter) in insertion order; the lists of the three
   types are pairwise disjoint and together hold every key, and on a fresh
   engine all keys are the historical plus the hypothetical ones;
   run_all_scenarios with filter t returns one result per key of
   list_scenarios(t), in that order, each carrying that key's scenario;
   neither call modifies the catalog. *)
C20_ListsByType ==
    [][/\ C20_State'
       /\ stressOut'.op \in {"list_scenarios", "run_all_scenarios"} =>
              engines' = engines
      ]_vars

\* the hypothetical scenarios run on an engine that holds an added
\* hypothetical scenario after the seeded ones and a custom one
C20_Witness ==
    /\ stressOut.op = "run_all_scenarios"
    /\ stressOut.scenario_type = HYPOTHETICAL
    /\ stressOut.equity_positions # None
    /\ Len(stressOut.result) = Len(HypotheticalSeed) + 1
    /\ stressOut.result[Len(stressOut.result)].scenario \in CustomScenarios
    /\ list_scenarios(engines[stressOut.engine], CUSTOM) # <<>>

\* the program holds the equality constraint fun with the given target
Pinned(problem, fun, target) ==
    \E i \in 1..Len(problem.constraints) :
        /\ problem.constraints[i].fun = fun
        /\ problem.constraints[i].target = target

(* C13: with objective TARGET_RETURN (TARGET_VOLATILITY) and a numeric
   target, the program handed to the solver holds the sum-to-one constraint
   and the equality constraint that pins the portfolio return (volatility) to
   the target, the objective is the portfolio variance, and a successful
   result has expected_return (expected_volatility) equal to the target. *)
C13_TargetPinned ==
    (/\ Solved("mean_variance_optimization")
     /\ optOut.objective \in {"TARGET_RETURN", "TARGET_VOLATILITY"}) =>
        LET isRet == optOut.objective = "TARGET_RETURN"
            target == IF isRet THEN optOut.constraints.target_return
                      ELSE optOut.constraints.target_volatility
        IN  target # None =>
                /\ \E i \in 1..Len(optOut.problem.constraints) :
                       optOut.problem.constraints[i].fun = "sum_minus_1"
                /\ Pinned(optOut.problem,
                          IF isRet THEN "return_minus_target"
                          ELSE "volatility_minus_target", target)
                /\ optOut.problem.obj_func = "portfolio_variance"
                /\ optOut.result.success =>
                       REq(IF isRet THEN optOut.result.expected_return
                           ELSE optOut.result.expected_volatility, target)

-----------------------------------------------------------------------------
(* The ratio specification: the risk ratios, the transaction-cost impact and
   the market-impact estimate on inputs that include the degenerate ones.
   The calls are made one after the other. *)

InitRatios ==
    /\ returns \in Series
    /\ benchmark_returns \in BenchmarksFor(returns)
    /\ risk_free_rate \in RiskFreeRates
    /\ riskOut = NoCall
    /\ AttrIdle
    /\ OptIdle
    /\ StressIdle
    /\ PeriodIdle
    /\ RandomIdle
    /\ PortfolioIdle

\* no call is in progress
Quiet == riskOut = NoCall /\ attrOut = NoCall /\ liqOut = NoCall

CalculateSharpeRatio ==
    /\ Quiet
    /\ riskOut' = [op |-> "calculate_sharpe_ratio",
                   result |-> calculate_sharpe_ratio(returns, risk_free_rate)]
    /\ UNCHANGED <<seriesVars, risk_free_rate, attrVars, optVars,
                 liqVars, stressVars, periodVars, randomVars,
                 portfolioVars>>

CalculateSortinoRatio ==
    /\ Quiet
    /\ \E target_return \in SortinoTargets :
        riskOut' = [op |-> "calculate_sortino_ratio",
                    target_return |-> target_return,
                    result |-> calculate_sortino_ratio(returns, target_return,
                                                       risk_free_rate)]
    /\ UNCHANGED <<seriesVars, risk_free_rate, attrVars, optVars,
                 liqVars, stressVars, periodVars, randomVars,
                 portfolioVars>>

CalculateCalmarRatio ==
    /\ Quiet
    /\ \E prices \in CalmarPrices :
        riskOut' = [op |-> "calculate_calmar_ratio", prices |-> prices,
                    result |-> calculate_calmar_ratio(returns, prices)]
    /\ UNCHANGED <<seriesVars, risk_free_rate, attrVars, optVars,
                 liqVars, stressVars, periodVars, randomVars,
                 portfolioVars>>

CalculateTransactionCostImpact ==
    /\ Quiet
    /\ \E trades \in TradeLists, total_nav \in NavValues :
        attrOut' = [op |-> "calculate_transaction_cost_impact",
                    trades |-> trades, total_nav |-> total_nav,
                    result |-> calculate_transaction_cost_impact(trades, total_nav)]
    /\ UNCHANGED <<seriesVars, riskVars, attr_risk_free_rate, optVars,
                 liqVars, stressVars, periodVars, randomVars,
                 portfolioVars>>

EstimateMarketImpact ==
    /\ Quiet
    /\ \E shares_to_trade \in ShareCounts, adv \in AdvValues,
          spread_bps \in SpreadValues, volatility \in VolatilityValues,
          participation_rate \in ParticipationRates :
        liqOut' = [op |-> "estimate_market_impact",
                   shares_to_trade |-> shares_to_trade, adv |-> adv,
                   spread_bps |-> spread_bps, volatility |-> volatility,
                   participation_rate |-> participation_rate,
                   result |-> estimate_market_impact(
                                  shares_to_trade, adv, spread_bps, volatility,
                                  participation_rate)]
    /\ UNCHANGED <<seriesVars, riskVars, attrVars, optVars, stressVars,
                 periodVars, randomVars,
                 portfolioVars>>

LiqReturn ==
    /\ liqOut # NoCall
    /\ liqOut' = NoCall
    /\ UNCHANGED <<seriesVars, riskVars, attrVars, optVars, stressVars,
                 periodVars, randomVars,
                 portfolioVars>>

NextRatios ==
    \/ Quiet /\ CalculateBeta
    \/ Quiet /\ CalculateInformationRatio
    \/ CalculateSharpeRatio
    \/ CalculateSortinoRatio
    \/ CalculateCalmarRatio
    \/ RiskReturn
    \/ CalculateTransactionCostImpact
    \/ AttrReturn
    \/ EstimateMarketImpact
    \/ LiqReturn

SpecRatios == InitRatios /\ [][NextRatios]_vars

\* a series of at least two observations that are all equal: its sample
\* variance is 0
ConstantSeries(s) == Len(s) >= 2 /\ \A i \in 1..Len(s) : s[i] = s[1]

\* the fallback of the ratios whose denominator is 0
InfIfPositive(numerator) == IF RGt(numerator, Zero) THEN Inf ELSE Zero

\* the excess returns over the daily risk-free rate
DailyExcess ==
    [i \in 1..Len(returns) |->
        RSub(returns[i], RDiv(risk_free_rate, RInt(TRADING_DAYS_PER_YEAR)))]

(* C12: a degenerate input yields the documented fallback and no exception:
   calculate_beta is 0 when the benchmark variance is 0, calculate_sharpe_ratio
   is 0 when the standard deviation is 0; calculate_sortino_ratio without
   downside observations or with zero downside deviation,
   calculate_calmar_ratio with zero drawdown and calculate_information_ratio
   with zero tracking error are +infinity when the numerator is positive and
   0 otherwise; calculate_transaction_cost_impact is 0 when the NAV is 0;
   estimate_market_impact with adv = 0 has infinite pct_adv and
   days_to_trade. *)
C12_DegenerateFallbacks ==
    /\ (riskOut.op = "calculate_beta" /\ ConstantSeries(benchmark_returns)) =>
           riskOut.result = Zero
    /\ (riskOut.op = "calculate_sharpe_ratio" /\ ConstantSeries(returns)) =>
           riskOut.result = Zero
    /\ (/\ riskOut.op = "calculate_sortino_ratio"
        /\ \A i \in 1..Len(returns) :
               \/ RGe(DailyExcess[i], riskOut.target_return)
               \/ DailyExcess[i] = Zero) =>
           riskOut.result = InfIfPositive(Mean(DailyExcess))
    /\ (/\ riskOut.op = "calculate_calmar_ratio"
        /\ riskOut.prices # <<>>
        /\ \A i \in 1..(Len(riskOut.prices) - 1) :
               RLe(riskOut.prices[i], riskOut.prices[i + 1])) =>
           riskOut.result = InfIfPositive(Mean(returns))
    /\ (/\ riskOut.op = "calculate_information_ratio"
        /\ ConstantSeries(ExcessReturns(returns, benchmark_returns))) =>
           riskOut.result = InfIfPositive(RSub(returns[1], benchmark_returns[1]))
    /\ (/\ attrOut.op = "calculate_transaction_cost_impact"
        /\ attrOut.total_nav = Zero) =>
           attrOut.result = Zero
    /\ (liqOut.op = "estimate_market_impact" /\ liqOut.adv = 0) =>
           /\ ~IsRaise(liqOut.result)
           /\ liqOut.result.pct_adv = Inf
           /\ liqOut.result.days_to_trade = Inf

\* a Sortino ratio of a series whose only downside observations are 0, with a
\* positive mean
C12_Witness ==
    /\ riskOut.op = "calculate_sortino_ratio"
    /\ \E i \in 1..Len(returns) : RLt(DailyExcess[i], riskOut.target_return)
    /\ riskOut.result = Inf

-----------------------------------------------------------------------------
(* The drawdown specification: RiskAnalyzer.calculate_max_drawdown on price
   series *)

InitDrawdown ==
    /\ SeriesIdle
    /\ risk_free_rate \in RiskFreeRates
    /\ riskOut = NoCall
    /\ AttrIdle
    /\ OptIdle
    /\ StressIdle
    /\ PeriodIdle
    /\ RandomIdle
    /\ PortfolioIdle

CalculateMaxDrawdown ==
    /\ riskOut = NoCall
    /\ \E prices \in PriceSeries :
        riskOut' = [op |-> "calculate_max_drawdown", prices |-> prices,
                    result |-> calculate_max_drawdown(prices)]
    /\ UNCHANGED <<seriesVars, risk_free_rate, attrVars, optVars,
                 liqVars, stressVars, periodVars, randomVars,
                 portfolioVars>>

NextDrawdown == CalculateMaxDrawdown \/ RiskReturn

SpecDrawdown == InitDrawdown /\ [][NextDrawdown]_vars

\* the largest of the first i prices
RunningMax(prices, i) ==
    CHOOSE m \in {prices[j] : j \in 1..i} : \A j \in 1..i : RLe(prices[j], m)

\* the drawdown at position i, from 1
DrawdownAt(prices, i) ==
    RDiv(RSub(prices[i], RunningMax(prices, i)), RunningMax(prices, i))

(* C14: for a non-empty series of positive prices calculate_max_drawdown
   returns (dd, peak, trough) with -1 <= dd <= 0 and peak <= trough; the
   price at peak is the running maximum at trough and peak is the first index
   holding it; dd = (prices[trough] - prices[peak]) / prices[peak] is the
   minimum over all i of the drawdown at i, and trough is the first index
   where the drawdown is that minimum. *)
C14_MaxDrawdown ==
    (riskOut.op = "calculate_max_drawdown" /\ riskOut.prices # <<>>) =>
        LET prices == riskOut.prices
            n == Len(prices)
        IN  /\ ~IsRaise(riskOut.result)
            /\ LET dd == riskOut.result.max_dd
                   peak == riskOut.result.peak_idx + 1
                   trough == riskOut.result.trough_idx + 1
               IN  /\ peak \in 1..n /\ trough \in 1..n
                   /\ RLe(RInt(-1), dd) /\ RLe(dd, Zero)
                   /\ peak <= trough
                   /\ REq(prices[peak], RunningMax(prices, trough))
                   /\ \A j \in 1..(peak - 1) : ~REq(prices[j], prices[peak])
                   /\ REq(dd, RDiv(RSub(prices[trough], prices[peak]),
                                   prices[peak]))
                   /\ \A i \in 1..n : RLe(dd, DrawdownAt(prices, i))
                   /\ REq(dd, DrawdownAt(prices, trough))
                   /\ \A j \in 1..(trough - 1) :
                          ~REq(DrawdownAt(prices, j), dd)

\* a drawdown from a peak that is neither the first price nor the highest one
\* of the series, to a trough inside the series
C14_Witness ==
    /\ riskOut.op = "calculate_max_drawdown"
    /\ riskOut.prices = <<One, RInt(2), One, RInt(3)>>
    /\ riskOut.result = [max_dd |-> R(-1, 2), peak_idx |-> 1, trough_idx |-> 2]

-----------------------------------------------------------------------------
(* The period specification: AttributionAnalyzer on the data of one period *)

InitPeriod ==
    /\ \E pair \in PeriodReturnPairs :
           returns = pair[1] /\ benchmark_returns = pair[2]
    /\ RiskIdle
    /\ AttrIdle
    /\ OptIdle
    /\ StressIdle
    /\ RandomIdle
    /\ PortfolioIdle
    /\ portfolio_weights_series \in WeightSeries
    /\ sector_returns_series \in ReturnSeriesFor(portfolio_weights_series)

CalculateTimingContribution ==
    /\ attrOut = NoCall
    /\ attrOut' = [op |-> "calculate_timing_contribution",
                   result |-> calculate_timing_contribution(
                                  portfolio_weights_series, sector_returns_series)]
    /\ UNCHANGED <<seriesVars, riskVars, attr_risk_free_rate, optVars,
                 liqVars, stressVars, periodVars, randomVars,
                 portfolioVars>>

FullAttributionAnalysis ==
    /\ attrOut = NoCall
    /\ \E portfolio_weights \in PeriodWeightDicts,
          benchmark_weights \in {[Technology |-> One]},
          sector_portfolio_returns \in PeriodReturnDicts \ {<<>>},
          sector_benchmark_returns \in {[Technology |-> RInt(-1)]},
          factors \in FactorArgs, traded \in TradeArgs :
        \E order \in Orders(DOMAIN portfolio_weights \cup DOMAIN benchmark_weights) :
            attrOut' = [op |-> "full_attribution_analysis",
                        portfolio_weights |-> portfolio_weights,
                        benchmark_weights |-> benchmark_weights,
                        sector_portfolio_returns |-> sector_portfolio_returns,
                        sector_benchmark_returns |-> sector_benchmark_returns,
                        order |-> order,
                        factor_exposures |-> factors[1],
                        factor_returns |-> factors[2],
                        trades |-> traded[1],
                        total_nav |-> traded[2],
                        result |-> full_attribution_analysis(
                            1, 2, returns, benchmark_returns,
                            portfolio_weights, benchmark_weights,
                            sector_portfolio_returns, sector_benchmark_returns,
                            factors[1], factors[2], traded[1], traded[2],
                            attr_risk_free_rate, order)]
    /\ UNCHANGED <<seriesVars, riskVars, attr_risk_free_rate, optVars,
                 liqVars, stressVars, periodVars, randomVars,
                 portfolioVars>>

NextPeriod ==
    \/ CalculateTimingContribution
    \/ FullAttributionAnalysis
    \/ AttrReturn

SpecPeriod == InitPeriod /\ [][NextPeriod]_vars

\* the timing contribution of period i, from 2, over the sectors of the weight
\* maps of period i and of period i - 1
TimingOfPeriod(weights_series, returns_series, i) ==
    LET sectors == DOMAIN weights_series[i] \cup DOMAIN weights_series[i - 1]
    IN  SumFun([sector \in sectors |->
                   RMul(RSub(Get(weights_series[i], sector, Zero),
                             Get(weights_series[i - 1], sector, Zero)),
                        Get(returns_series[i], sector, Zero))],
               sectors)

(* C15: calculate_timing_contribution returns 0 for fewer than two periods,
   and otherwise the sum over the periods i >= 1 of the sum, over every sector
   of the weight map of period i or of period i-1, of the change of the
   sector's weight times the sector's return in period i, a sector missing
   from a map counting as 0. *)
C15_TimingContribution ==
    attrOut.op = "calculate_timing_contribution" =>
        /\ Len(portfolio_weights_series) < 2 => attrOut.result = Zero
        /\ (/\ Len(portfolio_weights_series) >= 2
            /\ Len(sector_returns_series) = Len(portfolio_weights_series)) =>
               attrOut.result =
                   SumSeq([k \in 1..(Len(portfolio_weights_series) - 1) |->
                              TimingOfPeriod(portfolio_weights_series,
                                             sector_returns_series, k + 1)])

(* C16: full_attribution_analysis composes the component analyses of the
   same inputs: portfolio_return and benchmark_return are the compounded
   returns and excess_return their difference; sector_attribution is the
   Brinson-Fachler output and allocation_total and selection_total the sums
   of its effects; alpha and beta_contribution are those of the alpha/beta
   decomposition; factor_attribution is the factor attribution;
   transaction_cost_drag is the transaction-cost impact of the trades; and
   timing_contribution is the timing contribution of the period. *)
C16_FullAnalysisComposes ==
    attrOut.op = "full_attribution_analysis" =>
        LET o == attrOut
            r == attrOut.result
            brinson == calculate_brinson_fachler_attribution(
                           o.portfolio_weights, o.benchmark_weights,
                           o.sector_portfolio_returns,
                           o.sector_benchmark_returns, o.order)
            dec == calculate_alpha_beta_decomposition(
                       returns, benchmark_returns, attr_risk_free_rate)
            timing == calculate_timing_contribution(
                          portfolio_weights_series, sector_returns_series)
        IN  /\ ~IsRaise(r)
            /\ r.portfolio_return = RSub(Prod1p(returns), One)
            /\ r.benchmark_return = RSub(Prod1p(benchmark_returns), One)
            /\ r.excess_return = RSub(r.portfolio_return, r.benchmark_return)
            /\ r.sector_attribution = brinson
            /\ r.allocation_total =
                   SumSeq([k \in 1..Len(brinson) |-> brinson[k].allocation_effect])
            /\ r.selection_total =
                   SumSeq([k \in 1..Len(brinson) |-> brinson[k].selection_effect])
            /\ r.alpha = dec.alpha
            /\ r.beta_contribution = dec.beta_contribution
            /\ (o.factor_exposures # None /\ o.factor_returns # None) =>
                   r.factor_attribution =
                       calculate_factor_attribution(returns, o.factor_exposures.dict,
                                                    o.factor_returns.dict)
            /\ o.trades # None =>
                   r.transaction_cost_drag =
                       calculate_transaction_cost_impact(o.trades.list, o.total_nav)
            /\ ~IsRaise(timing) => r.timing_contribution = timing

-----------------------------------------------------------------------------
(* The scenario specification: one StressTestEngine running scenarios on
   exposures and computing impacts *)

\* the scenarios of the engine's catalog and the ones a caller builds
ScenariosOf(scenarios) ==
    {scenarios[i].value : i \in 1..Len(scenarios)} \cup CustomScenarios

RunScenario ==
    /\ stressOut = NoCall
    /\ \E scenario \in ScenariosOf(engines[1]),
          equity_positions \in ScenarioEquityPositions,
          fixed_income_positions \in ScenarioFixedIncomePositions,
          fx_exposures \in FxExposures,
          commodity_exposures \in CommodityExposures :
        stressOut' = [op |-> "run_scenario", engine |-> 1,
                      scenario |-> scenario,
                      equity_positions |-> equity_positions,
                      fixed_income_positions |-> fixed_income_positions,
                      fx_exposures |-> fx_exposures,
                      commodity_exposures |-> commodity_exposures,
                      result |-> run_scenario(scenario, equity_positions,
                                     fixed_income_positions, fx_exposures,
                                     commodity_exposures)]
    /\ UNCHANGED <<otherVars, moduleVars, engines>>

CalculateEquityImpact ==
    /\ stressOut = NoCall
    /\ \E p \in ScenarioEquityPositions \ {None}, equity_shock \in EquityShocks :
        stressOut' = [op |-> "calculate_equity_impact", engine |-> 1,
                      positions |-> p.dict, equity_shock |-> equity_shock,
                      result |-> calculate_equity_impact(p.dict, equity_shock)]
    /\ UNCHANGED <<otherVars, moduleVars, engines>>

CalculateFixedIncomeImpact ==
    /\ stressOut = NoCall
    /\ \E positions \in FixedIncomeBooks, rates_shock_bps \in RateShocks,
          credit_spread_shock_bps \in CreditShocks :
        stressOut' = [op |-> "calculate_fixed_income_impact", engine |-> 1,
                      positions |-> positions,
                      rates_shock_bps |-> rates_shock_bps,
                      credit_spread_shock_bps |-> credit_spread_shock_bps,
                      result |-> calculate_fixed_income_impact(
                                     positions, rates_shock_bps,
                                     credit_spread_shock_bps)]
    /\ UNCHANGED <<otherVars, moduleVars, engines>>

NextScenario ==
    \/ RunScenario
    \/ CalculateEquityImpact
    \/ CalculateFixedIncomeImpact
    \/ StressReturn

SpecScenario == InitStress /\ [][NextScenario]_vars

\* the sum of the numbers of a sequence, from 0
Total(q) == SumSeq(q)

(* C21: run_scenario returns portfolio_impact = equity_impact +
   fixed_income_impact + fx_impact + commodity_impact; the impact of a channel
   is the channel's impact calculation on the scenario's shocks when the
   exposures of the channel are supplied and not empty and, for FX and
   commodities, the scenario has shocks for the channel, and 0 otherwise; the
   result carries the scenario it was run with. *)
C21_RunScenarioSums ==
    stressOut.op = "run_scenario" =>
        LET o == stressOut
            r == stressOut.result
            sc == stressOut.scenario
            given(d) == d # None /\ d.dict # <<>>
        IN  /\ r.scenario = sc
            /\ r.portfolio_impact =
                   Total(<<r.equity_impact, r.fixed_income_impact, r.fx_impact,
                           r.commodity_impact>>)
            /\ r.equity_impact =
                   IF given(o.equity_positions)
                   THEN calculate_equity_impact(o.equity_positions.dict,
                                                sc.equity_shock).total_impact
                   ELSE Zero
            /\ r.fixed_income_impact =
                   IF given(o.fixed_income_positions)
                   THEN calculate_fixed_income_impact(
                            o.fixed_income_positions.dict, sc.rates_shock_bps,
                            sc.credit_spread_shock_bps).total_impact
                   ELSE Zero
            /\ r.fx_impact =
                   IF given(o.fx_exposures) /\ DOMAIN sc.fx_shocks # {}
                   THEN calculate_fx_impact(o.fx_exposures.dict,
                                            sc.fx_shocks).total_impact
                   ELSE Zero
            /\ r.commodity_impact =
                   IF given(o.commodity_exposures) /\ DOMAIN sc.commodity_shocks # {}
                   THEN calculate_commodity_impact(o.commodity_exposures.dict,
                                                   sc.commodity_shocks).total_impact
                   ELSE Zero

\* a scenario with FX shocks and without commodity shocks run on exposures of
\* all four channels
C21_Witness ==
    /\ stressOut.op = "run_scenario"
    /\ stressOut.commodity_exposures # None
    /\ stressOut.scenario.commodity_shocks = <<>>
    /\ stressOut.result.commodity_impact = Zero
    /\ RLt(stressOut.result.equity_impact, Zero)
    /\ ~REq(stressOut.result.fixed_income_impact, Zero)
    /\ ~REq(stressOut.result.fx_impact, Zero)

(* C22: calculate_equity_impact returns one entry per position, holding
   value * beta * shock, and a total that is the sum of the entries; the seeded
   GFC_2008 scenario (equity shock -0.45) run on {AAPL: (100000, 1.2)} has
   the equity impact -54000. *)
C22_EquityImpact ==
    /\ stressOut.op = "calculate_equity_impact" =>
           LET ps == stressOut.positions
               r == stressOut.result
           IN  /\ Len(r.position_impacts) = Len(ps)
               /\ \A i \in 1..Len(ps) :
                      /\ r.position_impacts[i].key = ps[i].key
                      /\ REq(r.position_impacts[i].value,
                             RMul(ps[i].value.value,
                                  RMul(ps[i].value.beta, stressOut.equity_shock)))
               /\ REq(r.total_impact,
                      Total([i \in 1..Len(ps) |-> r.position_impacts[i].value]))
    /\ (/\ stressOut.op = "run_scenario"
        /\ stressOut.scenario = get_scenario(engines[1], "GFC_2008")
        /\ stressOut.equity_positions # None
        /\ stressOut.equity_positions.dict =
               <<[key |-> "AAPL",
                  value |-> [value |-> RInt(100000), beta |-> R(6, 5)]]>>) =>
           /\ stressOut.scenario.equity_shock = R(-9, 20)
           /\ stressOut.result.equity_impact = RInt(-54000)

\* GFC_2008 run on the AAPL position alone
C22_Witness ==
    /\ stressOut.op = "run_scenario"
    /\ stressOut.scenario.name = "Global Financial Crisis 2008"
    /\ stressOut.equity_positions # None
    /\ Len(stressOut.equity_positions.dict) = 1
    /\ stressOut.fixed_income_positions = None
    /\ stressOut.result.portfolio_impact = RInt(-54000)

\* the impact of one fixed-income position under the combined shock s
BondImpact(pos, s) ==
    RAdd(RMul(RMul(RNeg(pos.duration), s), pos.value),
         RMul(RMul(RMul(R(1, 2), pos.convexity), RMul(s, s)), pos.value))

(* C23: calculate_fixed_income_impact gives each position
   -duration*s*value + 0.5*convexity*s^2*value with
   s = (rates_shock_bps + credit_spread_shock_bps) / 10000, so the result
   depends on the two shocks through their sum only; for positions of
   positive value, positive duration and non-negative convexity the total is
   strictly positive when s < 0 and strictly negative when s > 0 and
   0.5*convexity*s < duration for every position, as for RATES_UP_200 and
   RATES_DOWN_200 on the two-bond book. *)
C23_FixedIncomeImpact ==
    /\ stressOut.op = "calculate_fixed_income_impact" =>
           LET ps == stressOut.positions
               r == stressOut.result
               bps == RAdd(stressOut.rates_shock_bps,
                           stressOut.credit_spread_shock_bps)
               s == RDiv(bps, RInt(10000))
               regular == /\ ps # <<>>
                          /\ \A i \in 1..Len(ps) :
                                 /\ RGt(ps[i].value.value, Zero)
                                 /\ RGt(ps[i].value.duration, Zero)
                                 /\ RGe(ps[i].value.convexity, Zero)
           IN  /\ Len(r.position_impacts) = Len(ps)
               /\ \A i \in 1..Len(ps) :
                      /\ r.position_impacts[i].key = ps[i].key
                      /\ REq(r.position_impacts[i].value, BondImpact(ps[i].value, s))
               /\ REq(r.total_impact,
                      Total([i \in 1..Len(ps) |-> BondImpact(ps[i].value, s)]))
               /\ r = calculate_fixed_income_impact(ps, bps, Zero)
               /\ r = calculate_fixed_income_impact(ps, Zero, bps)
               /\ (regular /\ RLt(s, Zero)) => RGt(r.total_impact, Zero)
               /\ (/\ regular
                   /\ RGt(s, Zero)
                   /\ \A i \in 1..Len(ps) :
                          RLt(RMul(RMul(R(1, 2), ps[i].value.convexity), s),
                              ps[i].value.duration)) =>
                      RLt(r.total_impact, Zero)
    /\ (/\ stressOut.op = "run_scenario"
        /\ stressOut.fixed_income_positions # None
        /\ Len(stressOut.fixed_income_positions.dict) = 2) =>
           /\ stressOut.scenario = get_scenario(engines[1], "RATES_UP_200") =>
                  RLt(stressOut.result.fixed_income_impact, Zero)
           /\ stressOut.scenario = get_scenario(engines[1], "RATES_DOWN_200") =>
                  RGt(stressOut.result.fixed_income_impact, Zero)

\* the two-bond book under a rate shock and a credit spread shock of opposite
\* signs whose sum is negative
C23_Witness ==
    /\ stressOut.op = "calculate_fixed_income_impact"
    /\ Len(stressOut.positions) = 2
    /\ stressOut.rates_shock_bps = RInt(-200)
    /\ stressOut.credit_spread_shock_bps = RInt(50)
    /\ RGt(stressOut.result.total_impact, Zero)

\* the keys of the channels that run_scenario evaluated
EvaluatedKeys(o) ==
    LET keys(d, on) == IF d # None /\ d.dict # <<>> /\ on
                       THEN {d.dict[i].key : i \in 1..Len(d.dict)} ELSE {}
    IN  keys(o.equity_positions, TRUE)
        \cup keys(o.fixed_income_positions, TRUE)
        \cup keys(o.fx_exposures, DOMAIN o.scenario.fx_shocks # {})
        \cup keys(o.commodity_exposures, DOMAIN o.scenario.commodity_shocks # {})

(* C29: for every call of run_scenario, whatever identifiers the four maps
   use, the values of position_impacts sum to portfolio_impact, and the keys
   of position_impacts are the keys of the channels that were evaluated. *)
C29_PositionImpactsAccount ==
    stressOut.op = "run_scenario" =>
        LET r == stressOut.result
        IN  /\ REq(Total([i \in 1..Len(r.position_impacts) |->
                             r.position_impacts[i].value]),
                   r.portfolio_impact)
            /\ {r.position_impacts[i].key : i \in 1..Len(r.position_impacts)}
                   = EvaluatedKeys(stressOut)

-----------------------------------------------------------------------------
(* The random-source specification: the Monte-Carlo functions of the
   RiskAnalyzer and the StressTestEngine drawing from numpy's global
   generator, which the caller may seed with np.random.seed *)

\* the seeds the caller gives np.random.seed
Seeds == {0, 42}
RandomSeries == {<<Zero, R(1, 5)>>}
\* historical returns matrices (assets x time)
SimulationHistories ==
    {<<<<R(-1, 10), R(1, 10)>>, <<Zero, R(1, 5)>>>>,
     <<<<Zero, R(1, 5)>>>>}
WeightsFor(rets) ==
    IF Len(rets) = 1 THEN {<<One>>} ELSE {<<One, Zero>>, <<R(1, 2), R(1, 2)>>}
SimulationValues == {RInt(100)}

\* the draws reshaped to (num_simulations, time_horizon, assets)
Reshape(draws, num_simulations, time_horizon, assets) ==
    [s \in 1..num_simulations |-> [t \in 1..time_horizon |->
        [a \in 1..assets |->
            draws[((s - 1) * time_horizon + (t - 1)) * assets + a]]]]

InitRandom ==
    /\ returns \in RandomSeries
    /\ benchmark_returns = <<>>
    /\ RiskIdle
    /\ AttrIdle
    /\ OptIdle
    /\ HISTORICAL_SCENARIOS = HistoricalSeed
    /\ HYPOTHETICAL_SCENARIOS = HypotheticalSeed
    /\ engines = <<StressTestEngineInit(HistoricalSeed, HypotheticalSeed)>>
    /\ stressOut = NoCall
    /\ PeriodIdle
    /\ random_state \in [seed : {None}, x : 0..(RandomModulus - 1)]
    /\ observed = None
    /\ PortfolioIdle

\* np.random.seed(seed)
NpRandomSeed ==
    /\ riskOut = NoCall
    /\ stressOut = NoCall
    /\ \E seed \in Seeds :
        random_state' = [seed |-> [seed |-> seed], x |-> SeedState(seed)]
    /\ UNCHANGED <<seriesVars, riskVars, attrVars, optVars, liqVars,
                 stressVars, periodVars, observed, portfolioVars>>

\* calculate_var(returns, confidence_level, "monte_carlo", portfolio_value):
\* np.random.normal takes its draws from the global generator and leaves it
\* advanced
CalculateVarMonteCarlo ==
    /\ riskOut = NoCall
    /\ stressOut = NoCall
    /\ \E c \in {R(1, 2)}, pv \in {One} :
        LET z == DrawsFrom(random_state.x, SimDraws)
        IN  riskOut' = [op |-> "calculate_var", confidence_level |-> c,
                        method |-> "monte_carlo", portfolio_value |-> pv,
                        seed |-> random_state.seed, draws |-> z,
                        result |-> calculate_var(returns, c, "monte_carlo",
                                                 pv, z)]
    /\ random_state' = [random_state EXCEPT
                            !.x = StateAfter(random_state.x, SimDraws)]
    /\ UNCHANGED <<seriesVars, risk_free_rate, attrVars, optVars, liqVars,
                 stressVars, periodVars, observed, portfolioVars>>

\* monte_carlo_simulation(rets, weights, num_simulations, time_horizon,
\* initial_value): np.random.multivariate_normal takes its draws from the
\* global generator and leaves it advanced; a single asset raises before
\* any draw
MonteCarloSimulationGlobal ==
    /\ riskOut = NoCall
    /\ stressOut = NoCall
    /\ \E rets \in SimulationHistories, num_simulations \in {2},
          time_horizon \in {1}, initial_value \in SimulationValues :
        \E weights \in WeightsFor(rets) :
            LET size == num_simulations * time_horizon * Len(rets)
                z == Reshape(DrawsFrom(random_state.x, size), num_simulations,
                             time_horizon, Len(rets))
                result == monte_carlo_simulation(rets, weights, initial_value, z)
            IN  /\ stressOut' = [op |-> "monte_carlo_simulation", engine |-> 1,
                                 returns |-> rets, weights |-> weights,
                                 num_simulations |-> num_simulations,
                                 time_horizon |-> time_horizon,
                                 initial_value |-> initial_value,
                                 seed |-> random_state.seed,
                                 result |-> result]
                /\ random_state' =
                       IF IsRaise(result) THEN random_state
                       ELSE [random_state EXCEPT
                                 !.x = StateAfter(random_state.x, size)]
    /\ UNCHANGED <<otherVarsButRandom, moduleVars, engines, observed>>

\* the caller keeps the result of the call to compare it with a later one
KeepRisk ==
    /\ riskOut # NoCall
    /\ observed' = riskOut
    /\ riskOut' = NoCall
    /\ UNCHANGED <<seriesVars, risk_free_rate, attrVars, optVars, liqVars,
                 stressVars, periodVars, random_state, portfolioVars>>

KeepStress ==
    /\ stressOut # NoCall
    /\ observed' = stressOut
    /\ stressOut' = NoCall
    /\ UNCHANGED <<otherVarsButRandom, moduleVars, engines, random_state>>

NextRandom ==
    \/ NpRandomSeed
    \/ CalculateVarMonteCarlo
    \/ MonteCarloSimulationGlobal
    \/ KeepRisk
    \/ KeepStress
    \/ RiskReturn
    \/ StressReturn

SpecRandom == InitRandom /\ [][NextRandom]_vars

\* the explicit inputs of a recorded call: the record without its result,
\* and without the draws the generator happened to yield
SameInputs(a, b) ==
    /\ a.op = b.op
    /\ a.seed = b.seed
    /\ IF a.op = "calculate_var"
       THEN /\ a.confidence_level = b.confidence_level
            /\ a.method = b.method
            /\ a.portfolio_value = b.portfolio_value
       ELSE /\ a.returns = b.returns
            /\ a.weights = b.weights
            /\ a.num_simulations = b.num_simulations
            /\ a.time_horizon = b.time_horizon
            /\ a.initial_value = b.initial_value

\* the result of the call in progress agrees with the kept one
AgreesWithObserved(out) ==
    (out # NoCall /\ observed # None /\ observed.seed # None
        /\ SameInputs(out, observed)) => out.result = observed.result

(* C24: a Monte-Carlo function called twice with identical inputs under an
   identical seed returns identical outputs, whatever calls ran in between:
   the result of calculate_var with method 'monte_carlo', and of
   monte_carlo_simulation, agrees with the result the caller kept of an
   earlier call with the same inputs and the same seed. *)
C24_DeterminedByInputsAndSeed ==
    AgreesWithObserved(riskOut) /\ AgreesWithObserved(stressOut)

-----------------------------------------------------------------------------
(* The simulation specification: monte_carlo_simulation on whatever draws
   the random source yields *)

\* the largest num_simulations
MaxSimulations == 21
SimulationCounts == {2, 3, MaxSimulations - 2, MaxSimulations}
TimeHorizons == {1, 2}
MonteCarloHistories ==
    SimulationHistories \cup {<<<<R(1, 10), R(1, 10)>>, <<Zero, Zero>>>>}

\* the draws of num_simulations paths: the paths in some set draw hi on
\* every day and asset, the others lo
DrawTensors(num_simulations, time_horizon, assets) ==
    {[s \in 1..num_simulations |-> [t \in 1..time_horizon |->
         [a \in 1..assets |-> IF s \in high THEN hi ELSE lo]]] :
        high \in {{1}, {num_simulations}, 1..(num_simulations \div 2)},
        hi \in {RInt(-1), Zero, One}, lo \in {RInt(-1), Zero, One}}

MonteCarloSimulation ==
    /\ stressOut = NoCall
    /\ \E rets \in MonteCarloHistories, num_simulations \in SimulationCounts,
          time_horizon \in TimeHorizons, initial_value \in SimulationValues :
        \E weights \in WeightsFor(rets),
           z \in DrawTensors(num_simulations, time_horizon, Len(rets)) :
            stressOut' = [op |-> "monte_carlo_simulation", engine |-> 1,
                          returns |-> rets, weights |-> weights,
                          num_simulations |-> num_simulations,
                          time_horizon |-> time_horizon,
                          initial_value |-> initial_value,
                          result |-> monte_carlo_simulation(
                                         rets, weights, initial_value, z)]
    /\ UNCHANGED <<otherVars, moduleVars, engines>>

NextMonteCarlo == MonteCarloSimulation \/ StressReturn

SpecMonteCarlo == InitStress /\ [][NextMonteCarlo]_vars

\* a simulation has returned statistics of final values that are not all equal
NonDegenerate(o) ==
    /\ o.op = "monte_carlo_simulation"
    /\ ~IsRaise(o.result)
    /\ o.result.min_final_value # o.result.max_final_value

\* percentile_5 < mean_final_value < percentile_95
Brackets(result) ==
    /\ RLt(result.percentile_5, result.mean_final_value)
    /\ RGt(result.percentile_95, result.mean_final_value)

(* C25 as stated: whenever the final values of monte_carlo_simulation are not
   all equal, the reported percentile_5 is strictly below mean_final_value
   and percentile_95 strictly above it. *)
C25_PercentilesBracketMean ==
    NonDegenerate(stressOut) => Brackets(stressOut.result)

(* C25 as amended: whenever the final values are not all equal, the mean lies
   strictly between min_final_value and max_final_value, percentile_5 <=
   percentile_50 <= percentile_95, and percentile_5 < mean_final_value <
   percentile_95 holds when fewer than 20 paths are simulated. *)
C25_PercentilesAndMean ==
    NonDegenerate(stressOut) =>
        LET r == stressOut.result
        IN  /\ RLt(r.min_final_value, r.mean_final_value)
            /\ RLt(r.mean_final_value, r.max_final_value)
            /\ RLe(r.percentile_5, r.percentile_50)
            /\ RLe(r.percentile_50, r.percentile_95)
            /\ (stressOut.num_simulations < 20 => Brackets(r))

\* a simulation of few paths with final values that differ
C25_Witness ==
    /\ NonDegenerate(stressOut)
    /\ stressOut.num_simulations < 20
    /\ stressOut.num_simulations > 2
    /\ RLt(stressOut.result.percentile_5, stressOut.result.percentile_95)

-----------------------------------------------------------------------------
(* The returns specification: RiskAnalyzer.calculate_returns *)

\* np.log(b) - np.log(a), kept as the logarithm of the price ratio
LogDiff(a, b) == [ln |-> RDiv(b, a)]

\* calculate_returns(prices, method), prices not empty: the log returns for
\* method 'log', np.diff(prices) / prices[:-1] for every other method
calculate_returns(prices, method) ==
    IF method = "log"
    THEN [i \in 1..(Len(prices) - 1) |-> LogDiff(prices[i], prices[i + 1])]
    ELSE [i \in 1..(Len(prices) - 1) |->
             RDiv(RSub(prices[i + 1], prices[i]), prices[i])]

ReturnMethods == {"log", "simple", "arithmetic", "LOG"}

CalculateReturns ==
    /\ riskOut = NoCall
    /\ \E prices \in PriceSeries \ {<<>>}, method \in ReturnMethods :
        riskOut' = [op |-> "calculate_returns", prices |-> prices,
                    method |-> method,
                    result |-> calculate_returns(prices, method)]
    /\ UNCHANGED <<seriesVars, risk_free_rate, attrVars, optVars,
                 liqVars, stressVars, periodVars, randomVars,
                 portfolioVars>>

NextReturns == CalculateReturns \/ RiskReturn

SpecReturns == InitDrawdown /\ [][NextReturns]_vars

(* C26: calculate_returns supports exactly 'log' and 'simple': for these it
   returns len(prices) - 1 returns in price order, simple[i] =
   price[i+1]/price[i] - 1 and log[i] = ln(price[i+1]) - ln(price[i]); any
   other method value is surfaced as an invalid-argument error and not
   treated as one of the two. *)
C26_ReturnMethods ==
    riskOut.op = "calculate_returns" =>
        LET prices == riskOut.prices
            n == Len(prices) - 1
        IN  CASE riskOut.method = "simple" ->
                   riskOut.result =
                       [i \in 1..n |-> RSub(RDiv(prices[i + 1], prices[i]), One)]
              [] riskOut.method = "log" ->
                   riskOut.result =
                       [i \in 1..n |-> LogDiff(prices[i], prices[i + 1])]
              [] OTHER -> IsRaise(riskOut.result)

-----------------------------------------------------------------------------
(* Portfolio and Position (models/portfolio.py, models/securities.py);
   Decimal amounts are exact rationals *)

\* the index of the first position in the security symbol, 0 if none
IndexOf(positions, symbol) ==
    IF \E i \in 1..Len(positions) : positions[i].security.symbol = symbol
    THEN CHOOSE i \in 1..Len(positions) :
             /\ positions[i].security.symbol = symbol
             /\ \A j \in 1..(i - 1) : positions[j].security.symbol # symbol
    ELSE 0

\* faulty variant of add_position: the position is appended whatever is held
add_position_appending(positions, position) == Append(positions, position)

\* Portfolio.add_position: the positions list after the call
add_position(positions, position) ==
    LET i == IndexOf(positions, position.security.symbol)
    IN  IF i # 0
        THEN [positions EXCEPT ![i] =
                 [@ EXCEPT !.quantity = RAdd(@, position.quantity),
                           !.cost_basis = RAdd(@, position.cost_basis),
                           !.current_price =
                               IF position.current_price # None
                               THEN position.current_price ELSE @]]
        ELSE Append(positions, position)

\* self.positions.pop(i)
Pop(positions, i) ==
    SubSeq(positions, 1, i - 1) \o SubSeq(positions, i + 1, Len(positions))

\* Portfolio.remove_position: the positions list after the call and the
\* value returned
remove_position(positions, symbol) ==
    LET i == IndexOf(positions, symbol)
    IN  IF i # 0
        THEN [positions |-> Pop(positions, i), result |-> positions[i]]
        ELSE [positions |-> positions, result |-> None]

\* Position.market_value
market_value(position) ==
    IF position.current_price = None THEN None
    ELSE RMul(position.quantity, position.current_price)

\* Position.unrealized_gain_loss
unrealized_gain_loss(position) ==
    IF market_value(position) = None THEN None
    ELSE RSub(market_value(position), position.cost_basis)

\* the amounts that are not None
NotNone(amounts) ==
    SelectSeq(amounts, LAMBDA v : v # None)

\* Portfolio.total_market_value: positions without a price are left out
total_market_value(positions) ==
    SumSeq(NotNone([i \in 1..Len(positions) |-> market_value(positions[i])]))

\* Portfolio.total_cost_basis
total_cost_basis(positions) ==
    SumSeq([i \in 1..Len(positions) |-> positions[i].cost_basis])

\* Portfolio.total_unrealized_gain_loss: positions whose gain is None are
\* left out of the total
total_unrealized_gain_loss(positions) ==
    SumSeq(NotNone([i \in 1..Len(positions) |->
                       unrealized_gain_loss(positions[i])]))

-----------------------------------------------------------------------------
(* The portfolio specification: one Portfolio, empty at first *)

\* the largest quantity held in one position
MaxQuantity == 3
PortfolioSymbols == {"AAPL", "MSFT"}
\* the positions a caller adds
NewPositions ==
    [security : [symbol : PortfolioSymbols], quantity : {One, RInt(2)},
     cost_basis : {RInt(10)}, current_price : {None, RInt(5), RInt(20)}]

InitPortfolio ==
    /\ SeriesIdle
    /\ RiskIdle
    /\ AttrIdle
    /\ OptIdle
    /\ StressIdle
    /\ PeriodIdle
    /\ RandomIdle
    /\ PortfolioIdle

\* what a Portfolio call leaves alone
notPortfolio ==
    <<seriesVars, riskVars, attrVars, optVars, liqVars, stressVars,
      periodVars, randomVars>>

AddPosition ==
    /\ portfolioOut = NoCall
    /\ \E position \in NewPositions :
        LET after == add_position(portfolio_positions, position)
        IN  /\ \A i \in 1..Len(after) :
                   RLe(after[i].quantity, RInt(MaxQuantity))
            /\ portfolio_positions' = after
            /\ portfolioOut' = [op |-> "add_position", position |-> position,
                                result |-> None]
    /\ UNCHANGED notPortfolio

RemovePosition ==
    /\ portfolioOut = NoCall
    /\ \E symbol \in PortfolioSymbols \cup {"NONEXISTENT"} :
        LET r == remove_position(portfolio_positions, symbol)
        IN  /\ portfolio_positions' = r.positions
            /\ portfolioOut' = [op |-> "remove_position", symbol |-> symbol,
                                result |-> r.result]
    /\ UNCHANGED notPortfolio

\* the three totals read off the portfolio
ReadTotals ==
    /\ portfolioOut = NoCall
    /\ portfolioOut' =
           [op |-> "totals",
            total_market_value |-> total_market_value(portfolio_positions),
            total_cost_basis |-> total_cost_basis(portfolio_positions),
            total_unrealized_gain_loss |->
                total_unrealized_gain_loss(portfolio_positions)]
    /\ UNCHANGED <<notPortfolio, portfolio_positions>>

PortfolioReturn ==
    /\ portfolioOut # NoCall
    /\ portfolioOut' = NoCall
    /\ UNCHANGED <<notPortfolio, portfolio_positions>>

NextPortfolio ==
    \/ AddPosition
    \/ RemovePosition
    \/ ReadTotals
    \/ PortfolioReturn

SpecPortfolio == InitPortfolio /\ [][NextPortfolio]_vars

Held(positions, symbol) == IndexOf(positions, symbol) # 0

NoSharedSymbol(positions) ==
    \A i, j \in 1..Len(positions) :
        positions[i].security.symbol = positions[j].security.symbol => i = j

\* what add_position(position) made of the positions before
AddedTo(before, after, position) ==
    LET symbol == position.security.symbol
    IN  IF Held(before, symbol)
        THEN /\ Len(after) = Len(before)
             /\ \A i \in 1..Len(before) :
                  IF before[i].security.symbol = symbol
                  THEN /\ after[i].security = before[i].security
                       /\ after[i].quantity =
                              RAdd(before[i].quantity, position.quantity)
                       /\ after[i].cost_basis =
                              RAdd(before[i].cost_basis, position.cost_basis)
                       /\ after[i].current_price =
                              IF position.current_price = None
                              THEN before[i].current_price
                              ELSE position.current_price
                  ELSE after[i] = before[i]
        ELSE /\ Len(after) = Len(before) + 1
             /\ after = Append(before, position)

\* what remove_position(symbol) made of the positions before
RemovedFrom(before, after, symbol, result) ==
    IF Held(before, symbol)
    THEN /\ result # None
         /\ result.security.symbol = symbol
         /\ \E i \in 1..Len(before) : before[i] = result
         /\ Len(after) = Len(before) - 1
         /\ ~Held(after, symbol)
         /\ \A i \in 1..Len(before) :
                before[i].security.symbol # symbol =>
                    \E j \in 1..Len(after) : after[j] = before[i]
    ELSE result = None /\ after = before

(* C27: from an empty Portfolio, after every add_position and
   remove_position no two positions share a symbol; add_position for a held
   symbol adds quantity and cost basis into the existing position, taking
   the new current price only when one is given, and appends only for a new
   symbol, so the position count rises only then; remove_position of a held
   symbol returns that position and drops it, and for an unknown symbol
   returns None and leaves the list unchanged. *)
C27_OnePositionPerSymbol ==
    [][/\ NoSharedSymbol(portfolio_positions')
       /\ portfolioOut'.op = "add_position" =>
              AddedTo(portfolio_positions, portfolio_positions',
                      portfolioOut'.position)
       /\ portfolioOut'.op = "remove_position" =>
              RemovedFrom(portfolio_positions, portfolio_positions',
                          portfolioOut'.symbol, portfolioOut'.result)]_vars

\* a position was added for a held symbol without a price, and merged
C27_Witness ==
    /\ portfolioOut.op = "add_position"
    /\ portfolioOut.position.current_price = None
    /\ Len(portfolio_positions) = 2
    /\ \E i \in 1..2 :
        /\ portfolio_positions[i].security = portfolioOut.position.security
        /\ RGt(portfolio_positions[i].quantity, portfolioOut.position.quantity)
        /\ portfolio_positions[i].current_price # None

\* some position has no current price
LacksPricing(positions) ==
    \E i \in 1..Len(positions) : positions[i].current_price = None

(* C28: total_unrealized_gain_loss is None if any position lacks pricing,
   and otherwise the sum of the positions' unrealized gains and losses, which
   equals total_market_value - total_cost_basis. *)
C28_TotalUnrealizedGainLoss ==
    portfolioOut.op = "totals" =>
        IF LacksPricing(portfolio_positions)
        THEN portfolioOut.total_unrealized_gain_loss = None
        ELSE portfolioOut.total_unrealized_gain_loss =
                 RSub(portfolioOut.total_market_value,
                      portfolioOut.total_cost_basis)

-----------------------------------------------------------------------------
(* Brinson-Fachler totals, under SpecAttribution *)

\* the sum of f over the sectors of a Brinson-Fachler result, in its order
OverSectors(result, F(_)) ==
    SumSeq([k \in 1..Len(result) |-> F(result[k].sector)])

(* C30: when the portfolio weights and the benchmark weights have the same
   sum over the union of the sectors, the Brinson-Fachler total effects add
   up to sum(pw * pr) - sum(bw * br) and the allocation effects add up to
   sum((pw - bw) * br), a sector missing from a map counting as 0. *)
C30_EffectsAddUp ==
    attrOut.op = "calculate_brinson_fachler_attribution" =>
        LET result == attrOut.result
            pw(sector) == Get(attrOut.portfolio_weights, sector, Zero)
            bw(sector) == Get(attrOut.benchmark_weights, sector, Zero)
            pr(sector) == Get(attrOut.portfolio_returns, sector, Zero)
            br(sector) == Get(attrOut.benchmark_returns, sector, Zero)
            pwpr(sector) == RMul(pw(sector), pr(sector))
            bwbr(sector) == RMul(bw(sector), br(sector))
            active(sector) == RMul(RSub(pw(sector), bw(sector)), br(sector))
        IN  OverSectors(result, pw) = OverSectors(result, bw) =>
              /\ SumSeq([k \in 1..Len(result) |-> result[k].total_effect]) =
                     RSub(OverSectors(result, pwpr), OverSectors(result, bwbr))
              /\ SumSeq([k \in 1..Len(result) |-> result[k].allocation_effect]) =
                     OverSectors(result, active)

\* equal weight sums, different weights, and effects that do not cancel
C30_Witness ==
    /\ attrOut.op = "calculate_brinson_fachler_attribution"
    /\ Len(attrOut.result) = 2
    /\ attrOut.portfolio_weights # attrOut.benchmark_weights
    /\ SumSeq([k \in 1..2 |-> attrOut.result[k].portfolio_weight]) =
           SumSeq([k \in 1..2 |-> attrOut.result[k].benchmark_weight])
    /\ SumSeq([k \in 1..2 |-> attrOut.result[k].total_effect]) # Zero
    /\ \E k \in 1..2 : attrOut.result[k].interaction_effect # Zero

=============================================================================
